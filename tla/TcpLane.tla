------------------------------ MODULE TcpLane ------------------------------
(***************************************************************************)
(* The client's TCP lane (src/src/hybrid/tcp_lane.c, tcp_lane_uplink.c):   *)
(* inner TCP connections are terminated by lwIP and relayed, each over an  *)
(* H3 request of its own.  The flow table is indexed by 5-tuple; a flow    *)
(* relays bytes both ways, with back pressure and half-closes, and is torn *)
(* down from lwIP, from xquic or by the tick.                              *)
(*                                                                         *)
(* lwIP (pcbs) and xquic (reqs, unsent) are external.  The unit of data is *)
(* one TCP_MSS chunk, and the units of a direction are numbered from 1 so  *)
(* that loss, duplication and reordering show.  The operators map a record *)
(* of the lane, lwIP and xquic to the one a C function leaves behind; its  *)
(* st is the tcp_lane_flow_status_t the function returns.                  *)
(***************************************************************************)
EXTENDS Integers, FiniteSets, SequencesExt

CONSTANTS
    Keys,                       \* 5-tuples of inner TCP connections
    Isns,                       \* initial sequence numbers of their SYNs
    ReqIds,                     \* H3 requests alive at the same time
    tcp_max_flows,
    RAW_MARKER_CAP, CLOSING_CAP,
    tcp_idle_timeout,           \* sweeps; 0 means never
    CLOSING_GRACE,              \* sweeps
    BP_HIGH_WATER, BP_LOW_WATER,
    TCP_WND, TCP_SND_BUF,       \* of a pcb
    XqcBuffer,                  \* units xquic takes before it says EAGAIN
    MaxUp, MaxDown              \* bounds: units per flow and direction

ASSUME TcpLaneAssumption ==
    /\ 0 \notin ReqIds
    /\ tcp_max_flows \in Nat /\ RAW_MARKER_CAP \in Nat /\ CLOSING_CAP \in Nat \ {0}
    /\ BP_LOW_WATER < BP_HIGH_WATER /\ BP_HIGH_WATER < TCP_WND
    /\ BP_HIGH_WATER <= XqcBuffer

VARIABLES
    flows,          \* the table: a flow, marker or NoFlow for each key
    n_tcp_flows, n_raw_markers, n_closing,
    swept,          \* the sweep of this second was done (last_sweep_us)
    pcbs,           \* lwIP's connection of each key
    reqs,           \* xquic's requests
    unsent,         \* xquic's connection-wide unsent bytes
    low_memory,     \* lwIP's tcp_write fails with ERR_MEM
    frame,          \* the lwIP callback the last step was, if it was one
    freed           \* a function went on with a flow freed under it: undefined

vars == <<flows, n_tcp_flows, n_raw_markers, n_closing, swept, pcbs, reqs,
          unsent, low_memory, frame, freed>>

----------------------------------------------------------------------------
(* State *)

\* given, wire and written are not in the code: how many units lwIP delivered,
\* what xquic accepted of them, and what was written to the pcb.  A request of 0
\* is NULL.  stash holds at most one unit.
NoFlow ==
    [state |-> "none", syn_isn |-> 0, age |-> 0, pcb |-> FALSE, req |-> 0,
     uplink_q |-> << >>, queued |-> 0, withheld |-> FALSE, withheld_recved |-> 0,
     paused |-> FALSE, stash |-> << >>, tcp_fin_seen |-> FALSE,
     fin_sent |-> FALSE, fin_received |-> FALSE,
     given |-> 0, wire |-> << >>, written |-> << >>]

RelayStates == {"PENDING_STREAM", "ACTIVE"}

TcpStates == {"PENDING_ACCEPT"} \cup RelayStates

MaxAge == 1 + Max({tcp_idle_timeout, CLOSING_GRACE})

\* "syn": half open.  "est": accepted, its callbacks carry a flow.  "linger":
\* closed by us, without callbacks.  unrecved: delivered and not tcp_recved.
NoPcb == [st |-> "none", inflight |-> 0, unrecved |-> 0]

\* "open" until it is reset by either side.  got units have arrived, read were
\* received.  closed: its transport stream is gone already.
NoReq == [st |-> "free", answered |-> FALSE, notify |-> FALSE,
          got |-> 0, read |-> 0, fin |-> FALSE, fin_out |-> FALSE, closed |-> FALSE]

NoFrame == [ret |-> "none", aborted |-> FALSE]

Init ==
    /\ flows = [k \in Keys |-> NoFlow]
    /\ n_tcp_flows = 0 /\ n_raw_markers = 0 /\ n_closing = 0
    /\ swept = TRUE
    /\ pcbs = [k \in Keys |-> NoPcb]
    /\ reqs = [r \in ReqIds |-> NoReq]
    /\ unsent = 0
    /\ low_memory = FALSE
    /\ frame = NoFrame
    /\ freed = FALSE

world == [flows |-> flows, tcp |-> n_tcp_flows, raw |-> n_raw_markers,
          closing |-> n_closing, pcbs |-> pcbs, reqs |-> reqs,
          unsent |-> unsent, st |-> "LIVE"]

become(w) ==
    /\ flows' = w.flows
    /\ n_tcp_flows' = w.tcp /\ n_raw_markers' = w.raw /\ n_closing' = w.closing
    /\ pcbs' = w.pcbs /\ reqs' = w.reqs /\ unsent' = w.unsent
    /\ freed' = (w.st = "FREED")

----------------------------------------------------------------------------
(* Removal and teardown *)

\* Unlinks f, the flow of k, and takes it off the counter of its state.
tcp_lane_remove_flow(w, k, f) ==
    [w EXCEPT !.flows[k] = NoFlow,
              !.raw = IF f.state = "STICKY_RAW" THEN @ - 1 ELSE @,
              !.closing = IF f.state = "CLOSING" THEN @ - 1 ELSE @,
              !.tcp = IF f.state \in TcpStates THEN @ - 1 ELSE @]

tcp_lane_silent_abort_pcb(w, k) ==
    IF w.flows[k].pcb
    THEN [w EXCEPT !.pcbs[k] = NoPcb, !.flows[k].pcb = FALSE, !.st = "ABORTED"]
    ELSE [w EXCEPT !.st = "GONE"]

\* on_h3_closing and abort_pending: xquic's side is closed or was never opened.
teardown_forget_h3(w, k) ==
    tcp_lane_remove_flow(
        tcp_lane_silent_abort_pcb([w EXCEPT !.flows[k].req = 0], k), k, w.flows[k])

\* xqc_h3_request_close resets an open request and its close notify comes later;
\* but when the transport stream is closed it destroys the request at once, with
\* the notify (cb_request_close) inside: the flow is torn down and freed there,
\* before the caller's own writes to it.
tcp_lane_close_h3(w, k) ==
    LET r == w.flows[k].req
    IN  IF r = 0 THEN w
        ELSE IF w.reqs[r].closed
        THEN [teardown_forget_h3(w, k) EXCEPT !.reqs[r] = NoReq, !.st = "FREED"]
        ELSE [w EXCEPT !.reqs[r].st = "reset", !.reqs[r].notify = FALSE,
                       !.flows[k].req = 0]

\* The locally decided teardown; the flow it removes is the one it entered with.
tcp_lane_teardown_flow(w, k) ==
    LET v == tcp_lane_close_h3(w, k)
    IN  IF v.st = "FREED" THEN v
        ELSE tcp_lane_remove_flow(tcp_lane_silent_abort_pcb(v, k), k, w.flows[k])

mqvpn_tcp_lane_on_relay_error(w, k) == tcp_lane_teardown_flow(w, k)

oldest_closing(w) ==
    CHOOSE k \in Keys :
        /\ w.flows[k].state = "CLOSING"
        /\ \A j \in Keys : w.flows[j].state = "CLOSING" => w.flows[j].age <= w.flows[k].age

tcp_lane_evict_oldest_closing(w) ==
    LET k == oldest_closing(w) IN tcp_lane_remove_flow(w, k, w.flows[k])

tcp_lane_mark_closing(w, k) ==
    LET v == IF w.closing >= CLOSING_CAP THEN tcp_lane_evict_oldest_closing(w) ELSE w
    IN  [v EXCEPT !.tcp = @ - 1, !.closing = @ + 1,
                  !.flows[k].state = "CLOSING", !.flows[k].age = 0, !.flows[k].stash = << >>]

\* Both directions have ended: the pcb closes on its own, without callbacks.
tcp_lane_finish_clean_close(w, k) ==
    tcp_lane_mark_closing(
        [w EXCEPT !.pcbs[k] = [NoPcb EXCEPT !.st = "linger"], !.flows[k].pcb = FALSE,
                  !.flows[k].req = 0, !.st = "GONE"], k)

----------------------------------------------------------------------------
(* Uplink: lwIP recv to H3 send_body *)

min(a, b) == IF a <= b THEN a ELSE b

\* A queued pbuf, units from to to; one that is chained is sent unit by unit.
pbuf(from, to, chained) == [from |-> from, to |-> to, chained |-> chained]

tot_len(p) == p.to - p.from + 1

\* What xquic takes of it before EAGAIN, or before the high-water mark stops the
\* loop over the slices of a chain.
accepted(w, p) ==
    min(tot_len(p),
        (IF p.chained THEN min(XqcBuffer, BP_HIGH_WATER) ELSE XqcBuffer) - w.unsent)

\* A full accept clears xquic's write-notify flag, EAGAIN and a partial one set it.
tcp_lane_uplink_send_from(w, k, p) ==
    LET n == accepted(w, p)
    IN  [w EXCEPT !.unsent = @ + n,
                  !.flows[k].wire = @ \o [i \in 1 .. n |-> p.from + i - 1],
                  !.reqs[w.flows[k].req].notify = n < tot_len(p)]

set_write_notify(w, k, on) ==
    IF w.flows[k].req = 0 THEN w ELSE [w EXCEPT !.reqs[w.flows[k].req].notify = on]

tcp_lane_uplink_withhold(w, k) ==
    set_write_notify([w EXCEPT !.flows[k].withheld = TRUE], k, TRUE)

tcp_lane_recved(w, k, n) == [w EXCEPT !.pcbs[k].unrecved = @ - n]

\* One turn of the loop of flush; acc.rest is what stays queued.
flush_node(acc, k, p) ==
    LET n == accepted(acc.w, p)
        s == tcp_lane_uplink_send_from(acc.w, k, p)
        v == [s EXCEPT !.flows[k].queued = @ - n]
    IN  IF acc.stop THEN [acc EXCEPT !.rest = Append(@, p)]
        ELSE IF acc.w.unsent >= BP_HIGH_WATER
             THEN [w |-> tcp_lane_uplink_withhold(acc.w, k), rest |-> <<p>>, stop |-> TRUE]
        ELSE IF n < tot_len(p)
             THEN [w |-> tcp_lane_uplink_withhold(v, k),
                   rest |-> <<[p EXCEPT !.from = @ + n]>>, stop |-> TRUE]
        ELSE IF v.unsent >= BP_HIGH_WATER
             THEN [w |-> tcp_lane_uplink_withhold(v, k), rest |-> << >>, stop |-> TRUE]
        ELSE [w |-> v, rest |-> << >>, stop |-> FALSE]

flush_queue(w, k) ==
    LET acc == FoldLeft(LAMBDA a, p : flush_node(a, k, p),
                        [w |-> w, rest |-> << >>, stop |-> FALSE], w.flows[k].uplink_q)
    IN  [acc.w EXCEPT !.flows[k].uplink_q = acc.rest]

\* Mutant: the FIN does not wait for the queue.
fin_due_early(f) ==
    f.state = "ACTIVE" /\ f.req # 0 /\ f.tcp_fin_seen /\ ~f.fin_sent

fin_due(f) ==
    /\ f.state = "ACTIVE" /\ f.req # 0 /\ f.tcp_fin_seen
    /\ ~f.fin_sent /\ f.uplink_q = << >>

tcp_lane_uplink_maybe_fin(w, k, fault) ==
    LET f == w.flows[k]
        v == [w EXCEPT !.flows[k].fin_sent = TRUE, !.reqs[f.req].fin_out = TRUE,
                       !.reqs[f.req].notify = FALSE]
    IN  IF ~fin_due(f) THEN w
        ELSE IF fault = "fin" THEN mqvpn_tcp_lane_on_relay_error(w, k)
        ELSE IF w.unsent >= XqcBuffer THEN set_write_notify(w, k, TRUE)
        ELSE IF f.fin_received THEN tcp_lane_finish_clean_close(v, k) ELSE v

\* Below the low-water mark the withheld window is opened again.
flush_resume(w, k) ==
    LET f == w.flows[k]
        v == [tcp_lane_recved(w, k, f.withheld_recved) EXCEPT
                  !.flows[k].withheld = FALSE, !.flows[k].withheld_recved = 0]
    IN  IF f.withheld /\ f.uplink_q = << >> /\ w.unsent <= BP_LOW_WATER
        THEN IF ~f.tcp_fin_seen \/ f.fin_sent THEN set_write_notify(v, k, FALSE) ELSE v
        ELSE IF f.withheld THEN set_write_notify(w, k, TRUE) ELSE w

tcp_lane_uplink_flush(w, k, fault) ==
    LET f == w.flows[k]
        v == tcp_lane_uplink_maybe_fin(flush_queue(w, k), k, fault)
    IN  IF f.state # "ACTIVE" \/ f.req = 0 THEN w
        ELSE IF fault = "send" /\ f.uplink_q # << >> /\ w.unsent < BP_HIGH_WATER
             THEN mqvpn_tcp_lane_on_relay_error(w, k)
        ELSE IF v.st = "LIVE" THEN flush_resume(v, k) ELSE v

\* Delivered units are acknowledged to lwIP now, or when the window is opened.
credit(w, k, n) ==
    IF w.flows[k].withheld THEN [w EXCEPT !.flows[k].withheld_recved = @ + n]
    ELSE tcp_lane_recved(w, k, n)

\* Mutant: a full accept while withheld does not arm the notify again.
delivered_unarmed(w, k, n) ==
    IF w.unsent >= BP_HIGH_WATER THEN credit(tcp_lane_uplink_withhold(w, k), k, n)
    ELSE credit(w, k, n)

delivered(w, k, n) ==
    IF w.flows[k].withheld \/ w.unsent >= BP_HIGH_WATER
    THEN credit(tcp_lane_uplink_withhold(w, k), k, n) ELSE credit(w, k, n)

stashed(w, k, p, off, n) ==
    LET v == [w EXCEPT !.flows[k].uplink_q = Append(@, [p EXCEPT !.from = @ + off]),
                       !.flows[k].queued = @ + n - off]
        f == v.flows[k]
    IN  credit(IF f.state = "ACTIVE" \/ f.queued >= BP_HIGH_WATER
               THEN tcp_lane_uplink_withhold(v, k) ELSE v, k, n)

tcp_lane_uplink_deliver(w, k, p, fault) ==
    LET f == w.flows[k]
        fast == /\ f.state = "ACTIVE" /\ f.uplink_q = << >> /\ f.req # 0
                /\ w.unsent < BP_HIGH_WATER
        s == IF fast THEN tcp_lane_uplink_send_from(w, k, p) ELSE w
        off == IF fast THEN accepted(w, p) ELSE 0
    IN  IF fast /\ fault = "send" THEN mqvpn_tcp_lane_on_relay_error(w, k)
        ELSE IF off = tot_len(p) THEN delivered(s, k, tot_len(p))
        ELSE IF fault = "alloc" THEN mqvpn_tcp_lane_on_relay_error(s, k)
        ELSE stashed(s, k, p, off, tot_len(p))

----------------------------------------------------------------------------
(* Downlink: H3 recv_body to lwIP tcp_write *)

sndbuf(w, k) == IF low_memory THEN 0 ELSE TCP_SND_BUF - w.pcbs[k].inflight

tcp_write(w, k, units) ==
    [w EXCEPT !.pcbs[k].inflight = @ + Len(units), !.flows[k].written = @ \o units]

tcp_lane_downlink_maybe_shutdown(w, k, fault) ==
    LET v == [w EXCEPT !.flows[k].fin_received = TRUE]
    IN  IF w.flows[k].fin_received THEN w
        ELSE IF fault = "shutdown" THEN mqvpn_tcp_lane_on_relay_error(v, k)
        ELSE IF v.flows[k].fin_sent THEN tcp_lane_finish_clean_close(v, k) ELSE v

\* Writes what is buffered until the pcb is full; the unit that does not fit is
\* stashed.  Its fin flag is dropped: recv_body reports it again.
tcp_lane_downlink_drain(w, k, fault) ==
    LET r == w.flows[k].req
        q == w.reqs[r]
        m == min(q.got - q.read, sndbuf(w, k))
        v == tcp_write([w EXCEPT !.reqs[r].read = @ + m], k, [i \in 1 .. m |-> q.read + i])
    IN  IF fault = "recv" \/ (fault = "write" /\ m > 0)
        THEN mqvpn_tcp_lane_on_relay_error(w, k)
        ELSE IF m < q.got - q.read
             THEN IF fault = "alloc" THEN mqvpn_tcp_lane_on_relay_error(v, k)
                  ELSE [v EXCEPT !.reqs[r].read = @ + 1,
                                 !.flows[k].stash = <<q.read + m + 1>>,
                                 !.flows[k].paused = TRUE]
        ELSE IF q.fin THEN tcp_lane_downlink_maybe_shutdown(v, k, fault) ELSE v

tcp_lane_downlink_stash_retry(w, k, fault) ==
    IF sndbuf(w, k) < 1 THEN w
    ELSE IF fault = "write" THEN mqvpn_tcp_lane_on_relay_error(w, k)
    ELSE [tcp_write(w, k, w.flows[k].stash) EXCEPT !.flows[k].stash = << >>,
                                                   !.flows[k].paused = FALSE]

tcp_lane_downlink_pump_status(w, k, fault) ==
    LET v == IF w.flows[k].paused THEN tcp_lane_downlink_stash_retry(w, k, fault) ELSE w
        f == v.flows[k]
    IN  IF v.st = "LIVE" /\ ~f.paused /\ f.state = "ACTIVE" /\ f.req # 0 /\ f.pcb
        THEN tcp_lane_downlink_drain(v, k, fault) ELSE v

----------------------------------------------------------------------------
(* Packets from the TUN *)

existing(k) == flows[k].state # "none"

\* Whether a SYN is that of a new connection: the tuple is unknown, only a marker
\* of a finished connection, or marked RAW for a different handshake.
new_connection(k, isn) ==
    \/ ~existing(k)
    \/ flows[k].state = "CLOSING"
    \/ flows[k].state = "STICKY_RAW" /\ flows[k].syn_isn # isn

\* Mutant: a stale entry is replaced without being removed.
on_syn_replaced_unremoved(k) == world

\* on_syn drops a stale marker before it looks at the caps.
on_syn_replaced(k) ==
    IF existing(k) THEN tcp_lane_remove_flow(world, k, flows[k]) ELSE world

on_syn_refused(w, to_tcp) ==
    IF to_tcp THEN w.tcp >= tcp_max_flows ELSE w.raw >= RAW_MARKER_CAP

mqvpn_tcp_lane_on_syn(k, to_tcp, isn, alloc_ok) ==
    LET w == on_syn_replaced(k)
        f == [NoFlow EXCEPT !.state = IF to_tcp THEN "PENDING_ACCEPT" ELSE "STICKY_RAW",
                            !.syn_isn = IF to_tcp THEN 0 ELSE isn]
    IN  IF on_syn_refused(w, to_tcp) \/ ~alloc_ok THEN [w EXCEPT !.st = "GONE"]
        ELSE [w EXCEPT !.flows[k] = f,
                       !.tcp = IF to_tcp THEN @ + 1 ELSE @,
                       !.raw = IF to_tcp THEN @ ELSE @ + 1]

\* lwIP answers a SYN with a half-open pcb, unless it has one or none is free.
lwip_syn(p) ==
    {p} \cup (IF p.st \in {"none", "linger"} THEN {[NoPcb EXCEPT !.st = "syn"]} ELSE {})

\* A SYN read from the TUN; to_tcp is the verdict of hybrid_tcp_syn_policy.  Every
\* other packet goes to lwIP or to the RAW lane without touching the table.
tun_decide_lane(k, isn, to_tcp, alloc_ok) ==
    LET new == new_connection(k, isn)
        w == IF new THEN mqvpn_tcp_lane_on_syn(k, to_tcp, isn, alloc_ok) ELSE world
        feed == w.flows[k].state \notin {"none", "STICKY_RAW"}
    IN  /\ \E p \in (IF feed THEN lwip_syn(pcbs[k]) ELSE {pcbs[k]}) :
               become([w EXCEPT !.pcbs[k] = p])
        /\ frame' = NoFrame
        /\ UNCHANGED <<swept, low_memory>>

----------------------------------------------------------------------------
(* lwIP callbacks *)

\* After a use of freed memory the callback returns nothing one could rely on.
errs == [LIVE |-> "ERR_OK", GONE |-> "ERR_OK", ABORTED |-> "ERR_ABRT", FREED |-> "none"]

\* A callback on the pcb of k returned ret; aborted is not in the code: whether
\* the pcb was freed by a tcp_abort of ours.
returns(k, w, ret) ==
    /\ become(w)
    /\ frame' = [ret |-> ret, aborted |-> pcbs[k].st # "none" /\ w.pcbs[k].st = "none"]
    /\ UNCHANGED <<swept, low_memory>>

stamped(w, k) == [w EXCEPT !.flows[k].age = 0]

free_reqs == {r \in ReqIds : reqs[r].st = "free"}

\* The request is bound before its headers are sent; if that fails it is closed
\* here and abort_pending only forgets it.
cli_tcp_lane_open_stream(w, k, outcome, r) ==
    CASE outcome = "created" ->
             [w EXCEPT !.flows[k].req = r, !.reqs[r] = [NoReq EXCEPT !.st = "open"]]
      [] outcome = "headers_failed" ->
             teardown_forget_h3([w EXCEPT !.flows[k].req = r,
                                          !.reqs[r] = [NoReq EXCEPT !.st = "reset"]], k)
      [] outcome = "not_created" -> teardown_forget_h3(w, k)

\* For a pcb that no flow waits for lwIP does the abort (ERR_VAL); the cap is
\* checked again, in vain.
mqvpn_tcp_lane_lwip_accept(k, outcome, r) ==
    LET a == [world EXCEPT !.flows[k].pcb = TRUE, !.flows[k].state = "PENDING_STREAM",
                           !.flows[k].age = 0, !.pcbs[k].st = "est"]
        w == cli_tcp_lane_open_stream(a, k, outcome, r)
    IN  /\ pcbs[k].st = "syn"
        /\ IF flows[k].state # "PENDING_ACCEPT"
           THEN /\ pcbs' = [pcbs EXCEPT ![k] = NoPcb]
                /\ frame' = [ret |-> "ERR_VAL", aborted |-> FALSE]
                /\ UNCHANGED <<flows, n_tcp_flows, n_raw_markers, n_closing, swept,
                               reqs, unsent, low_memory, freed>>
           ELSE IF n_tcp_flows > tcp_max_flows
           THEN /\ become([tcp_lane_remove_flow(world, k, flows[k]) EXCEPT !.pcbs[k] = NoPcb])
                /\ frame' = [ret |-> "ERR_MEM", aborted |-> FALSE]
                /\ UNCHANGED <<swept, low_memory>>
           ELSE returns(k, w, errs[w.st])

lwip_accept(k) ==
    \/ mqvpn_tcp_lane_lwip_accept(k, "not_created", 0)
    \/ \E r \in free_reqs, o \in {"created", "headers_failed"} :
           r = Min(free_reqs) /\ mqvpn_tcp_lane_lwip_accept(k, o, r)

\* Mutant: the receive callback returns ERR_OK after a fatal error.
recv_result_ok(st) == "ERR_OK"

recv_result(st) == errs[st]

\* n units arrive, within the window that is still open.
on_lwip_recv(k, n, chained, fault) ==
    LET f == flows[k]
        w == stamped([world EXCEPT !.flows[k].given = @ + n, !.pcbs[k].unrecved = @ + n], k)
        v == tcp_lane_uplink_deliver(w, k, pbuf(f.given + 1, f.given + n, chained), fault)
    IN  /\ pcbs[k].st = "est" /\ ~f.tcp_fin_seen
        /\ f.given + n <= MaxUp /\ pcbs[k].unrecved + n <= TCP_WND
        /\ IF f.state \in RelayStates THEN returns(k, v, recv_result(v.st))
           ELSE returns(k, w, "ERR_OK")

\* recv(NULL): the inner application has closed its side.
on_lwip_recv_fin(k, fault) ==
    LET v == tcp_lane_uplink_flush(stamped([world EXCEPT !.flows[k].tcp_fin_seen = TRUE], k),
                                   k, fault)
    IN  /\ pcbs[k].st = "est" /\ ~flows[k].tcp_fin_seen
        /\ returns(k, v, recv_result(v.st))

\* The inner application acknowledged n units.
mqvpn_tcp_lane_on_lwip_sent(k, n, fault) ==
    LET w == stamped([world EXCEPT !.pcbs[k].inflight = @ - n], k)
        v == tcp_lane_downlink_stash_retry(w, k, fault)
    IN  /\ pcbs[k].st = "est" /\ n <= pcbs[k].inflight
        /\ IF ~w.flows[k].paused THEN returns(k, w, "ERR_OK")
           ELSE IF v.st # "LIVE" \/ v.flows[k].paused THEN returns(k, v, errs[v.st])
           ELSE LET u == tcp_lane_downlink_pump_status(v, k, fault)
                IN  returns(k, u, errs[u.st])

\* A reset, or lwIP gave up: the pcb is already freed.
mqvpn_tcp_lane_on_lwip_err(k) ==
    LET v == tcp_lane_close_h3([world EXCEPT !.flows[k].pcb = FALSE, !.pcbs[k] = NoPcb], k)
    IN  /\ pcbs[k].st = "est"
        /\ become(IF v.st = "FREED" THEN v ELSE tcp_lane_remove_flow(v, k, flows[k]))
        /\ frame' = NoFrame
        /\ UNCHANGED <<swept, low_memory>>

\* lwIP drops a half-open or lingering pcb; it has no callbacks of ours.
lwip_expire(k) ==
    /\ pcbs[k].st \in {"syn", "linger"}
    /\ pcbs' = [pcbs EXCEPT ![k] = NoPcb]
    /\ frame' = NoFrame
    /\ UNCHANGED <<flows, n_tcp_flows, n_raw_markers, n_closing, swept, reqs, unsent,
                   low_memory, freed>>

\* lwIP's pools run dry, or recover.
lwip_memory(low) ==
    /\ low_memory # low
    /\ low_memory' = low
    /\ frame' = NoFrame
    /\ UNCHANGED <<flows, n_tcp_flows, n_raw_markers, n_closing, swept, pcbs, reqs, unsent, freed>>

----------------------------------------------------------------------------
(* xquic callbacks *)

bound(r) == {k \in Keys : flows[k].req = r}

notified(w) == become(w) /\ frame' = NoFrame /\ UNCHANGED <<swept, low_memory>>

arrived(w, r, n, fin) == [w EXCEPT !.reqs[r].got = @ + n, !.reqs[r].fin = fin]

can_arrive(r, n, fin) ==
    /\ reqs[r].st = "open" /\ ~reqs[r].fin
    /\ reqs[r].got + n <= MaxDown

\* Body, or an empty FIN: the only notify that data has come.
cli_connect_tcp_on_body(w, r, fault) ==
    IF bound(r) = {} THEN w
    ELSE LET k == CHOOSE k \in bound(r) : TRUE
         IN  IF w.flows[k].req = r /\ w.st = "LIVE"
             THEN tcp_lane_downlink_pump_status(w, k, fault) ELSE w

cb_request_read_body(r, n, fin, fault) ==
    /\ can_arrive(r, n, fin) /\ reqs[r].answered
    /\ n > 0 \/ fin
    /\ notified(cli_connect_tcp_on_body(arrived(world, r, n, fin), r, fault))

\* A response, with body or FIN in the same notify or not.
cb_request_read_headers(r, ok, n, fin, fault) ==
    LET w == [arrived(world, r, n, fin) EXCEPT !.reqs[r].answered = TRUE]
        k == CHOOSE k \in bound(r) : TRUE
        v == IF bound(r) = {} THEN w
             ELSE IF ok
             THEN tcp_lane_uplink_flush(stamped([w EXCEPT !.flows[k].state = "ACTIVE"], k),
                                        k, fault)
             ELSE tcp_lane_teardown_flow(w, k)
    IN  /\ can_arrive(r, n, fin) /\ ~reqs[r].answered
        /\ notified(IF n > 0 \/ fin THEN cli_connect_tcp_on_body(v, r, fault) ELSE v)

mqvpn_tcp_lane_on_h3_closing(w, r) ==
    IF bound(r) = {} THEN w ELSE teardown_forget_h3(w, CHOOSE k \in bound(r) : TRUE)

\* RESET_STREAM was received.
cb_request_closing(r) ==
    /\ reqs[r].st = "open" /\ ~reqs[r].closed
    /\ notified([mqvpn_tcp_lane_on_h3_closing(world, r) EXCEPT
                     !.reqs[r].st = "reset", !.reqs[r].notify = FALSE])

\* The final notify, for whatever reason; afterwards the request is gone.
cb_request_close(r) ==
    /\ reqs[r].st # "free"
    /\ notified([mqvpn_tcp_lane_on_h3_closing(world, r) EXCEPT !.reqs[r] = NoReq])

cb_request_write(r, fault) ==
    /\ reqs[r].st = "open" /\ reqs[r].notify
    /\ bound(r) # {}
    /\ notified(tcp_lane_uplink_flush(world, CHOOSE k \in bound(r) : TRUE, fault))

\* Both directions of the stream have ended and everything is acknowledged, so the
\* transport stream goes; the request may outlive it, until it is read to its end.
xqc_stream_closed(r) ==
    /\ reqs[r].st = "open" /\ reqs[r].fin /\ reqs[r].fin_out
    /\ ~reqs[r].closed /\ ~reqs[r].notify
    /\ unsent = 0 /\ bound(r) # {}
    /\ reqs' = [reqs EXCEPT ![r].closed = TRUE]
    /\ frame' = NoFrame
    /\ UNCHANGED <<flows, n_tcp_flows, n_raw_markers, n_closing, swept, pcbs, unsent,
                   low_memory, freed>>

\* The network takes what xquic has buffered.
xqc_sends ==
    /\ unsent > 0
    /\ unsent' = unsent - 1
    /\ frame' = NoFrame
    /\ UNCHANGED <<flows, n_tcp_flows, n_raw_markers, n_closing, swept, pcbs, reqs,
                   low_memory, freed>>

----------------------------------------------------------------------------
(* The tick *)

sweep_flow(w, k, fault) ==
    LET f == w.flows[k]
        v == tcp_lane_downlink_stash_retry(w, k, fault)
        g == v.flows[k]
    IN  IF f.state = "CLOSING"
        THEN IF f.age > CLOSING_GRACE THEN tcp_lane_remove_flow(w, k, f) ELSE w
        ELSE IF /\ tcp_idle_timeout # 0 /\ f.state \in TcpStates
                /\ f.age > tcp_idle_timeout
             THEN tcp_lane_teardown_flow(w, k)
        ELSE IF f.paused
             THEN IF v.st = "LIVE" /\ ~g.paused /\ g.state = "ACTIVE" /\ g.req # 0 /\ g.pcb
                  THEN tcp_lane_downlink_drain(v, k, fault) ELSE v
        ELSE w

key_order == SetToSeq(Keys)

\* At most once a second, all flows in the order of the table; a fault hits one.  A
\* bucket that is walked again after a removal has nothing more to do.
mqvpn_tcp_lane_tick(victim, fault) ==
    LET sweep(w, k) ==
            IF w.st = "FREED" THEN w
            ELSE LET v == sweep_flow(w, k, IF k = victim THEN fault ELSE "none")
                 IN  [v EXCEPT !.st = IF @ = "FREED" THEN @ ELSE "LIVE"]
    IN  /\ n_tcp_flows # 0 \/ n_closing # 0
        /\ ~swept
        /\ become(FoldLeft(sweep, world, key_order))
        /\ swept' = TRUE
        /\ frame' = NoFrame
        /\ UNCHANGED low_memory

\* A second passes.
elapse ==
    /\ flows' = [k \in Keys |-> IF existing(k) /\ flows[k].state # "STICKY_RAW"
                                THEN [flows[k] EXCEPT !.age = min(@ + 1, MaxAge)]
                                ELSE flows[k]]
    /\ swept' = FALSE
    /\ frame' = NoFrame
    /\ UNCHANGED <<n_tcp_flows, n_raw_markers, n_closing, pcbs, reqs, unsent, low_memory, freed>>

\* The connection ends: every accepted pcb is aborted, then lwIP and xquic drop
\* the rest; a reconnect starts with an empty lane.  So does a new process.
mqvpn_tcp_lane_free ==
    /\ flows' = [k \in Keys |-> NoFlow]
    /\ n_tcp_flows' = 0 /\ n_raw_markers' = 0 /\ n_closing' = 0
    /\ swept' = TRUE
    /\ pcbs' = [k \in Keys |-> NoPcb]
    /\ reqs' = [r \in ReqIds |-> NoReq]
    /\ unsent' = 0
    /\ frame' = NoFrame
    /\ freed' = FALSE
    /\ UNCHANGED low_memory

----------------------------------------------------------------------------

UpFaults == {"none", "send", "fin", "alloc"}

DownFaults == {"none", "recv", "write", "alloc", "shutdown"}

\* What the lane, lwIP and xquic do, as long as its memory is its own.
Runs ==
    \/ \E k \in Keys :
           \/ \E isn \in Isns, to_tcp, alloc_ok \in BOOLEAN :
                  tun_decide_lane(k, isn, to_tcp, alloc_ok)
           \/ lwip_accept(k)
           \/ \E n \in 1 .. 2, chained \in BOOLEAN, fault \in UpFaults :
                  on_lwip_recv(k, n, chained, fault)
           \/ \E fault \in UpFaults : on_lwip_recv_fin(k, fault)
           \/ \E n \in 1 .. TCP_SND_BUF, fault \in DownFaults :
                  mqvpn_tcp_lane_on_lwip_sent(k, n, fault)
           \/ mqvpn_tcp_lane_on_lwip_err(k)
           \/ lwip_expire(k)
           \/ \E fault \in DownFaults : mqvpn_tcp_lane_tick(k, fault)
    \/ \E r \in ReqIds :
           \/ \E n \in 0 .. 2, fin \in BOOLEAN :
                  \/ \E fault \in DownFaults : cb_request_read_body(r, n, fin, fault)
                  \/ \E ok \in BOOLEAN, fault \in UpFaults \cup DownFaults :
                         cb_request_read_headers(r, ok, n, fin, fault)
           \/ \E fault \in UpFaults : cb_request_write(r, fault)
           \/ cb_request_closing(r)
           \/ cb_request_close(r)
           \/ xqc_stream_closed(r)
    \/ \E low \in BOOLEAN : lwip_memory(low)
    \/ xqc_sends
    \/ elapse

Next == \/ ~freed /\ Runs
        \/ mqvpn_tcp_lane_free

Spec == Init /\ [][Next]_vars

write_due(r) ==
    /\ reqs[r].st = "open" /\ reqs[r].notify
    /\ \E k \in bound(r) : flows[k].state = "ACTIVE"

ack_due(k) == pcbs[k].st = "est" /\ pcbs[k].inflight > 0

sweep_due == ~swept /\ (n_tcp_flows # 0 \/ n_closing # 0)

----------------------------------------------------------------------------
(* Properties *)

flow_t ==
    [state : {"none", "STICKY_RAW", "CLOSING"} \cup TcpStates, syn_isn : {0} \cup Isns,
     age : 0 .. MaxAge, pcb : BOOLEAN, req : {0} \cup ReqIds,
     uplink_q : Seq([from : 1 .. MaxUp, to : 1 .. MaxUp, chained : BOOLEAN]),
     queued : 0 .. MaxUp, withheld : BOOLEAN, withheld_recved : 0 .. MaxUp,
     paused : BOOLEAN, stash : Seq(1 .. MaxDown), tcp_fin_seen : BOOLEAN,
     fin_sent : BOOLEAN, fin_received : BOOLEAN,
     given : 0 .. MaxUp, wire : Seq(1 .. MaxUp), written : Seq(1 .. MaxDown)]

TypeOK ==
    /\ flows \in [Keys -> flow_t]
    /\ pcbs \in [Keys -> [st : {"none", "syn", "est", "linger"},
                          inflight : 0 .. TCP_SND_BUF, unrecved : 0 .. TCP_WND]]
    /\ reqs \in [ReqIds -> [st : {"free", "open", "reset"}, answered : BOOLEAN,
                            notify : BOOLEAN, got : 0 .. MaxDown, read : 0 .. MaxDown,
                            fin : BOOLEAN, fin_out : BOOLEAN, closed : BOOLEAN]]
    /\ unsent \in 0 .. XqcBuffer
    /\ swept \in BOOLEAN /\ low_memory \in BOOLEAN /\ freed \in BOOLEAN

in_state(S) == Cardinality({k \in Keys : flows[k].state \in S})

\* However flows change state, are replaced, evicted or removed, each is counted once:
\* the three population counters count the flows of their states and stay within
\* their caps.
CountersExact ==
    /\ n_tcp_flows = in_state(TcpStates) /\ n_tcp_flows <= tcp_max_flows
    /\ n_raw_markers = in_state({"STICKY_RAW"}) /\ n_raw_markers <= RAW_MARKER_CAP
    /\ n_closing = in_state({"CLOSING"}) /\ n_closing <= CLOSING_CAP

\* No dangling pointer and no orphan between the lane, lwIP and xquic, after every
\* teardown from either side: a pcb whose callbacks carry a flow is the pcb of that
\* flow and conversely; a flow's request is open and its own; and a request that is
\* open has its flow, unless both directions have ended.  The counters are exact.
NothingDangles ==
    /\ TypeOK
    /\ CountersExact
    /\ \A k \in Keys :
          LET f == flows[k]
          IN  /\ f.pcb <=> pcbs[k].st = "est"
              /\ f.pcb <=> f.state \in RelayStates
              /\ f.req # 0 <=> f.state \in RelayStates
              /\ f.req # 0 => reqs[f.req].st = "open" /\ bound(f.req) = {k}
              /\ f.paused => f.state = "ACTIVE"
    /\ \A r \in ReqIds :
          LET q == reqs[r]
          IN  q.st = "open" /\ bound(r) = {} => q.fin_out /\ q.fin /\ q.read = q.got

\* "A flow is never torn down twice from the SAME event" (tcp_lane_remove_flow): no
\* teardown goes on with a flow that the close notify freed under it.
TornDownOnce == ~freed

units(q) == FlattenSeq([i \in DOMAIN q |-> [j \in 1 .. tot_len(q[i]) |-> q[i].from + j - 1]])

upto(n) == [i \in 1 .. n |-> i]

\* Neither direction loses, repeats or reorders a byte across back pressure, partial
\* accepts, buffering before the response and the drop of a stashed chunk's fin flag;
\* each FIN follows all data of its direction, and a flow is closed cleanly only
\* after both.  What was delivered and not withheld was given back to lwIP's window.
RelayIntact ==
    \A k \in Keys :
        LET f == flows[k]
        IN  /\ f.wire \o units(f.uplink_q) = upto(f.given)
            /\ f.queued = Len(units(f.uplink_q))
            /\ f.fin_sent => f.tcp_fin_seen /\ f.uplink_q = << >>
            /\ f.pcb => pcbs[k].unrecved = f.withheld_recved
            /\ ~f.withheld => f.withheld_recved = 0
            /\ f.paused <=> f.stash # << >>
            /\ f.req # 0 => f.written \o f.stash = upto(reqs[f.req].read)
            /\ f.req # 0 /\ f.fin_received =>
                   reqs[f.req].fin /\ reqs[f.req].read = reqs[f.req].got /\ ~f.paused
            /\ f.state = "CLOSING" => f.fin_sent /\ f.fin_received

\* The contract of tcp_lane_flow_status_t: a callback lwIP invoked returns ERR_ABRT
\* exactly when the pcb was freed by tcp_abort inside it, through however many calls.
AbortReported == frame.ret # "none" => (frame.aborted <=> frame.ret = "ERR_ABRT")
=============================================================================
