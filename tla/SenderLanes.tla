---------------------------- MODULE SenderLanes ----------------------------
(***************************************************************************)
(* What a packet read from the TUN device goes through before xquic takes  *)
(* it, on the client (mqvpn_client_on_tun_packet) and on the server        *)
(* (mqvpn_server_on_tun_packet): the reorder stamp (reorder_tx.c,          *)
(* reorder_gate.h), and on the client the copies of redundant mode         *)
(* (redundant_tx.c), with xquic's later word on every datagram.            *)
(*                                                                         *)
(* Lengths are in units of the reorder header, times in ticks of           *)
(* egress_idle_timeout; what the overload judgement measures (rates, path  *)
(* metrics, elapsed windows) is a choice of its outcome.  The hash of the  *)
(* copy table is a parameter of the case: nothing may depend on it.        *)
(***************************************************************************)
EXTENDS Integers, FiniteSets, Sequences

CONSTANTS
    SlCases,              \* [side, keys, plain, redundant, lens, kinds, max_flows, udp_mss,
                          \*  paths, home, sends, time, moves, judged]
    egress_idle_timeout,  \* ticks without an accepted packet before a flow is idle
    reset_mark_packets,   \* packets of a new flow that carry RESET
    RTX_CAP,              \* capacity of the two tables
    RTX_LAG,              \* ticks a path may queue beyond the best one
    RTX_ENTER_N,          \* all-short judgements that enter overload
    RTX_REENTER_N,        \* the same during a probe
    MQVPN_PTB_RATE_LIMIT  \* ICMP errors per tick

ASSUME SenderAssumption ==
    /\ egress_idle_timeout \in Nat
    /\ reset_mark_packets \in Nat
    /\ \A c \in SlCases : c.paths \in Nat

HDR_LEN == 1
RTX_SLOTS == 2 * RTX_CAP
Slot == 0..(RTX_SLOTS - 1)

VARIABLES
    sl_case,
    sl_now,     \* the clock
    sl_peak,    \* the latest time it has shown
    sl_flow,    \* key -> send_flow, for the keys in the table
    sl_red,     \* mqvpn_redundant_tx_t
    sl_link,    \* path slot -> [live, xqc]: lifecycle state, xquic's path id
    sl_bp,      \* backpressure
    sl_ptb,     \* [tokens, refill]
    sl_stat,    \* [acked, lost]: the datagram counters
    sl_net,     \* datagram id -> [orig, st]: what xquic took and its word on it
    sl_wire     \* key -> the stamped packets xquic took: [seq, reset, at, peak]

sl_vars == <<sl_case, sl_now, sl_peak, sl_flow, sl_red, sl_link, sl_bp, sl_ptb,
             sl_stat, sl_net, sl_wire>>

Path == 1..sl_case.paths
on_client == sl_case.side = "client"

SlCur == [flow |-> sl_flow, red |-> sl_red, bp |-> sl_bp, ptb |-> sl_ptb,
          stat |-> sl_stat, net |-> sl_net, wire |-> sl_wire]

SlCommit(q) ==
    /\ sl_flow' = q.flow /\ sl_red' = q.red /\ sl_bp' = q.bp /\ sl_ptb' = q.ptb
    /\ sl_stat' = q.stat /\ sl_net' = q.net /\ sl_wire' = q.wire

-----------------------------------------------------------------------------
(* The send_flow table.                                                    *)

\* Mutant: the difference of the unsigned times is taken unguarded.
flow_idle_wraps(f, now) ==
    now < f.last_activity \/ now - f.last_activity > egress_idle_timeout

\* Guarded against a clock that stepped back: now - last would wrap around.
flow_idle(f, now) == now > f.last_activity /\ now - f.last_activity > egress_idle_timeout

\* The idle flows with the oldest activity; which one of equals the scan of
\* the buckets meets first depends on the hash.
evict_one_idle(flow, now) ==
    LET victims == {k \in DOMAIN flow : flow_idle(flow[k], now)}
    IN  {k \in victims : \A j \in victims : flow[k].last_activity <= flow[j].last_activity}

without(f, k) == [j \in DOMAIN f \ {k} |-> f[j]]

compute_eligible(key) == key \in sl_case.keys \ sl_case.plain

new_flow(key, now) ==
    [next_seq |-> 0, last_activity |-> now, reset_marks_left |-> reset_mark_packets,
     eligible |-> compute_eligible(key)]

\* The tables get_or_create may leave: the flow found or created, or not
\* created because the table is full of active flows or memory is short.
get_or_create(flow, key, now) ==
    LET add(g) == [k \in DOMAIN g \union {key} |->
                      IF k = key THEN new_flow(key, now) ELSE g[k]]
        victims == evict_one_idle(flow, now)
    IN  IF key \in DOMAIN flow THEN {flow}
        ELSE IF Cardinality(DOMAIN flow) < sl_case.max_flows THEN {flow, add(flow)}
        ELSE IF victims = {} THEN {flow}
        ELSE UNION {{without(flow, k), add(without(flow, k))} : k \in victims}

\* flow is the table after get_or_create.
mqvpn_reorder_tx_peek(flow, pkt) ==
    IF pkt.key \notin DOMAIN flow \/ ~flow[pkt.key].eligible THEN "RAW"
    ELSE IF HDR_LEN + pkt.len > sl_case.udp_mss THEN "DROP_MTU"
    ELSE "STAMP"

\* xquic took the packet: number and mark are used up.  The ghost sl_wire
\* remembers what went out.
mqvpn_reorder_tx_commit(q, key) ==
    LET f == q.flow[key]
    IN  [q EXCEPT !.flow[key] =
                      [f EXCEPT !.next_seq = @ + 1, !.last_activity = sl_now,
                                !.reset_marks_left = IF @ > 0 THEN @ - 1 ELSE 0],
                  !.wire[key] = Append(@, [seq |-> f.next_seq,
                                           reset |-> f.reset_marks_left > 0,
                                           at |-> sl_now, peak |-> sl_peak])]

\* Parsing fails for what is no whole UDP packet ("other"): no flow is made.
reordered(pkt) == pkt.key # "other" /\ sl_case.udp_mss > 0

mqvpn_rgate_decide(flow, pkt, reorder) ==
    LET act == IF reorder THEN mqvpn_reorder_tx_peek(flow, pkt) ELSE "RAW"
    IN  CASE act = "STAMP" -> "STAMP"
          [] act = "DROP_MTU" -> "DROP_REORDER_MTU"
          [] act = "RAW" ->
               IF sl_case.udp_mss > 0 /\ pkt.len > sl_case.udp_mss THEN "DROP_RAW_MTU"
               ELSE "RAW"

\* The bucket runs on the monotonic clock.
mqvpn_ptb_bucket_allow(q) ==
    LET b == IF sl_peak - q.ptb.refill >= 1
             THEN [tokens |-> MQVPN_PTB_RATE_LIMIT, refill |-> sl_peak] ELSE q.ptb
    IN  [q EXCEPT !.ptb = [b EXCEPT !.tokens = IF @ > 0 THEN @ - 1 ELSE 0]]

mqvpn_rgate_send_ptb(q) == mqvpn_ptb_bucket_allow(q)

-----------------------------------------------------------------------------
(* The tables of redundant mode: linear probing, backward-shift deletion.  *)

Free == [used |-> FALSE, key |-> 0, a |-> 0, b |-> 0]
EmptyTab == [e |-> [i \in Slot |-> Free], n |-> 0]

rtx_slot(key) == sl_case.home[key]

\* The slot a probe from the key's home ends at: the key's or a free one.
probe(t, key) ==
    LET at(d) == (rtx_slot(key) + d) % RTX_SLOTS
        ends == {d \in Slot : ~t.e[at(d)].used \/ t.e[at(d)].key = key}
    IN  at(CHOOSE d \in ends : \A x \in ends : d <= x)

tab_find(t, key) == LET i == probe(t, key) IN IF t.e[i].used THEN {i} ELSE {}

tab_insert(t, key, a, b) ==
    [e |-> [t.e EXCEPT ![probe(t, key)] = [used |-> TRUE, key |-> key, a |-> a, b |-> b]],
     n |-> t.n + 1]

\* Mutant: the interval is not cyclic.
stays_linear(h, i, j) == h > i /\ h <= j

\* An entry at j may move to the hole at i unless its home lies cyclically in
\* (i, j].
stays(h, i, j) == IF i <= j THEN h > i /\ h <= j ELSE h > i \/ h <= j

tab_remove(t, i) ==
    LET step(st, d) ==
            LET j == (i + d) % RTX_SLOTS
            IN  IF st.done \/ ~st.e[j].used THEN [st EXCEPT !.done = TRUE]
                ELSE IF stays(rtx_slot(st.e[j].key), st.hole, j) THEN st
                ELSE [st EXCEPT !.e[st.hole] = st.e[j], !.hole = j]
        scan[d \in Slot] == IF d = 0 THEN [e |-> t.e, hole |-> i, done |-> FALSE]
                            ELSE step(scan[d - 1], d)
        end == scan[RTX_SLOTS - 1]
    IN  [e |-> [end.e EXCEPT ![end.hole] = Free], n |-> t.n - 1]

rtx_mode_reset(r) == [r EXCEPT !.mode = "NORMAL", !.short_n = 0]

\* sent is the used part of the path's ring: when its unresolved copies were
\* sent, outstanding of them.
NewPath == [bound |-> FALSE, xqc |-> 0, sent |-> <<>>]
outstanding(r, p) == Len(r.path[p].sent)

mqvpn_redundant_tx_new(n) ==
    [copies |-> EmptyTab, origs |-> EmptyTab, next_orig |-> 0,
     path |-> [p \in 1..n |-> NewPath], mode |-> "NORMAL", short_n |-> 0]

\* The path's copies stop counting; what becomes of them still does.
mqvpn_redundant_tx_detach_path(r, p) ==
    IF outstanding(r, p) = 0 THEN r
    ELSE [r EXCEPT !.copies.e = [i \in Slot |->
                        IF @[i].used /\ @[i].b = p THEN [@[i] EXCEPT !.b = 0] ELSE @[i]],
                   !.path[p].sent = <<>>]

mqvpn_redundant_tx_bind_path(r, p, xqc) ==
    LET d == IF r.path[p].bound /\ r.path[p].xqc # xqc
             THEN mqvpn_redundant_tx_detach_path(r, p) ELSE r
    IN  [d EXCEPT !.path[p].bound = TRUE, !.path[p].xqc = xqc]

usable == {p \in Path : sl_link[p].live}

redundant_usable_paths(r) ==
    LET upto[p \in 0..sl_case.paths] ==
            IF p = 0 THEN r
            ELSE IF p \in usable
                 THEN mqvpn_redundant_tx_bind_path(upto[p - 1], p, sl_link[p].xqc)
                 ELSE mqvpn_redundant_tx_detach_path(upto[p - 1], p)
    IN  upto[sl_case.paths]

\* How long the oldest unresolved copy has been due.
rtx_queued(r, p) ==
    LET sent == r.path[p].sent
    IN  IF sent # <<>> /\ sl_now > Head(sent) THEN sl_now - Head(sent) ELSE 0

\* The paths to send on, ascending, as many as the copy table has room for.
mqvpn_redundant_tx_select(r) ==
    LET q(p) == rtx_queued(r, p)
        n(p) == outstanding(r, p)
        better(p, o) == \/ q(p) < q(o)
                        \/ q(p) = q(o) /\ n(p) < n(o)
                        \/ q(p) = q(o) /\ n(p) = n(o) /\ p <= o
        best == CHOOSE p \in usable : \A o \in usable : better(p, o)
        chosen == IF q(best) > RTX_LAG THEN {best}
                  ELSE {p \in usable : q(p) <= q(best) + RTX_LAG}
        room == RTX_CAP - r.copies.n
    IN  IF usable = {} \/ r.origs.n >= RTX_CAP THEN <<>>
        ELSE LET s == SelectSeq([p \in Path |-> p], LAMBDA p : p \in chosen)
             IN  SubSeq(s, 1, IF Len(s) < room THEN Len(s) ELSE room)

commit_copy(r, o, id, p) ==
    [r EXCEPT !.copies = tab_insert(@, id, o, p), !.path[p].sent = Append(@, sl_now)]

\* cs is the sequence of accepted copies, [id, path].
mqvpn_redundant_tx_commit(r, cs) ==
    LET o == r.next_orig + 1
        c == [r EXCEPT !.next_orig = o, !.origs = tab_insert(@, o, Len(cs), 0)]
        upto[i \in 0..Len(cs)] ==
            IF i = 0 THEN c ELSE commit_copy(upto[i - 1], o, cs[i].id, cs[i].path)
    IN  IF cs = <<>> THEN r ELSE upto[Len(cs)]

\* One copy is acked or lost.  ret: -1 not tracked, otherwise whether its
\* original is acked for the first time, or lost with its last copy.
resolved(r, id, acked) ==
    LET c == CHOOSE i \in tab_find(r.copies, id) : TRUE
        p == r.copies.e[c].b
        o == CHOOSE i \in tab_find(r.origs, r.copies.e[c].a) : TRUE
        ent == r.origs.e[o]
        last == ent.a = 1
        out == IF p = 0 THEN r.path
               ELSE [r.path EXCEPT ![p].sent = Tail(@)]
        origs == IF last THEN tab_remove(r.origs, o)
                 ELSE [r.origs EXCEPT !.e[o].a = @ - 1, !.e[o].b = IF acked THEN 1 ELSE @]
    IN  [red |-> [r EXCEPT !.copies = tab_remove(@, c), !.path = out, !.origs = origs],
         ret |-> IF acked THEN 1 - ent.b ELSE IF last THEN 1 - ent.b ELSE 0]

mqvpn_redundant_tx_on_acked(r, id) ==
    IF tab_find(r.copies, id) = {} THEN [red |-> r, ret |-> -1] ELSE resolved(r, id, TRUE)

mqvpn_redundant_tx_on_lost(r, id) ==
    IF tab_find(r.copies, id) = {} THEN [red |-> r, ret |-> -1] ELSE resolved(r, id, FALSE)

\* One judgement.  "restart": nothing counted or judged for RTX_IDLE;
\* "quiet": the window is not over, or no rate yet; "short": every usable path
\* is backed up and delivers too little.  due: the overload hold is over and
\* some path fits the stream, or the probe has lasted its time.
Judgement == [verdict : {"restart", "quiet", "short", "fine"}, due : BOOLEAN]

mqvpn_redundant_tx_update_mode(r, j) ==
    LET n == IF j.verdict = "short" THEN r.short_n + 1 ELSE 0
        limit == IF r.mode = "PROBE" THEN RTX_REENTER_N ELSE RTX_ENTER_N
    IN  CASE j.verdict = "restart" -> rtx_mode_reset(r)
          [] j.verdict = "quiet" -> r
          [] j.verdict \in {"short", "fine"} ->
               IF r.mode = "OVERLOAD"
               THEN IF j.due THEN [r EXCEPT !.mode = "PROBE", !.short_n = 0] ELSE r
               ELSE [r EXCEPT !.short_n = n,
                              !.mode = IF n >= limit THEN "OVERLOAD"
                                       ELSE IF @ = "PROBE" /\ j.due THEN "NORMAL" ELSE @]

mqvpn_redundant_tx_overload_bypass(r) == r.mode = "OVERLOAD"

-----------------------------------------------------------------------------
(* The client's send path.  res gives xquic's answer for every path and    *)
(* for the path its own scheduler picks (0): "ok", "eagain" or "error".    *)

Fresh(q) == Cardinality(DOMAIN q.net) + 1

\* xquic takes n datagrams of the original.
Taken(q, orig, n) ==
    [q EXCEPT !.net = [i \in DOMAIN @ \union {Fresh(q) + d - 1 : d \in 1..n} |->
                          IF i \in DOMAIN @ THEN @[i] ELSE [orig |-> orig, st |-> "flight"]]]

tun_send_redundant(q, orig, res) ==
    LET r == redundant_usable_paths(q.red)
        sel == IF mqvpn_redundant_tx_overload_bypass(r) THEN <<>>
               ELSE mqvpn_redundant_tx_select(r)
        ok == SelectSeq(sel, LAMBDA p : res[p] = "ok")
        cs == [i \in DOMAIN ok |-> [id |-> Fresh(q) + i - 1, path |-> ok[i]]]
        sent == [Taken(q, orig, Len(cs)) EXCEPT !.red = mqvpn_redundant_tx_commit(r, cs)]
    IN  [q |-> IF cs = <<>> /\ \E i \in DOMAIN sel : res[sel[i]] = "eagain"
               THEN [sent EXCEPT !.bp = TRUE] ELSE sent,
         done |-> cs # <<>> \/ \E i \in DOMAIN sel : res[sel[i]] = "eagain"]

\* With a stamp the number is used up only if xquic takes the packet.
send_once(q, key, stamp, orig, answer) ==
    CASE answer = "ok" -> LET t == Taken(q, orig, 1)
                          IN  IF stamp THEN mqvpn_reorder_tx_commit(t, key) ELSE t
      [] answer = "eagain" -> IF on_client THEN [q EXCEPT !.bp = TRUE] ELSE q
      [] answer = "error" -> q

Orig == Cardinality({sl_net[i].orig : i \in DOMAIN sl_net}) + 1

tun_send_datagram(q, pkt, stamp, redundant, res) ==
    LET s == tun_send_redundant(q, Orig, res)
    IN  IF redundant
        THEN IF s.done THEN s.q ELSE send_once(s.q, pkt.key, FALSE, Orig, res[0])
        ELSE send_once(q, pkt.key, stamp, Orig, res[0])

mqvpn_redundant_match(pkt) == pkt.key \in sl_case.redundant

tun_validate_src(pkt) == pkt.kind # "stray"

\* tun_decide_lane from the reorder gate on.
tun_decide_lane(q, pkt, res) ==
    LET redundant == mqvpn_redundant_match(pkt)
        v == mqvpn_rgate_decide(q.flow, pkt, reordered(pkt) /\ ~redundant)
    IN  IF v \in {"DROP_REORDER_MTU", "DROP_RAW_MTU"} THEN mqvpn_rgate_send_ptb(q)
        ELSE tun_send_datagram(q, pkt, v = "STAMP", redundant, res)

\* The server drops on backpressure, and a packet whose TTL ends here after
\* it has been looked at by the reorder gate.
svr_forward(q, pkt, res) ==
    LET v == mqvpn_rgate_decide(q.flow, pkt, reordered(pkt))
    IN  IF v \in {"DROP_REORDER_MTU", "DROP_RAW_MTU"} THEN mqvpn_rgate_send_ptb(q)
        ELSE IF pkt.kind = "ttl" THEN mqvpn_ptb_bucket_allow(q)
        ELSE send_once(q, pkt.key, v = "STAMP", Orig, res[0])

\* A "stray" packet has a source that is not the client's, or a destination
\* no session has; the TTL of a "ttl" packet ends at the server.
Packet == [key : sl_case.keys \union sl_case.redundant \union {"other"},
           len : sl_case.lens, kind : sl_case.kinds]

\* The tables the reorder gate's lookup may leave.
Looked(pkt) ==
    IF reordered(pkt) /\ ~mqvpn_redundant_match(pkt)
    THEN get_or_create(sl_flow, pkt.key, sl_now) ELSE {sl_flow}

-----------------------------------------------------------------------------
SlInit ==
    /\ sl_case \in SlCases
    /\ sl_now = 0 /\ sl_peak = 0
    /\ sl_flow = <<>>
    /\ sl_red = mqvpn_redundant_tx_new(sl_case.paths)
    /\ sl_link = [p \in 1..sl_case.paths |-> [live |-> TRUE, xqc |-> 0]]
    /\ sl_bp = FALSE
    /\ sl_ptb = [tokens |-> MQVPN_PTB_RATE_LIMIT, refill |-> 0]
    /\ sl_stat = [acked |-> 0, lost |-> 0]
    /\ sl_net = <<>>
    /\ sl_wire = [k \in sl_case.keys |-> <<>>]

Answers == [0..sl_case.paths -> {"ok", "eagain", "error"}]

mqvpn_client_on_tun_packet(pkt, res) ==
    /\ on_client
    /\ ~sl_bp
    /\ Orig <= sl_case.sends
    /\ \E flow \in Looked(pkt) :
           SlCommit(IF tun_validate_src(pkt)
                    THEN tun_decide_lane([SlCur EXCEPT !.flow = flow], pkt, res)
                    ELSE SlCur)
    /\ UNCHANGED <<sl_case, sl_now, sl_peak, sl_link>>

mqvpn_server_on_tun_packet(pkt, res) ==
    /\ ~on_client
    /\ Orig <= sl_case.sends
    /\ \E flow \in Looked(pkt) :
           SlCommit(IF pkt.kind = "stray" THEN mqvpn_ptb_bucket_allow(SlCur)
                    ELSE svr_forward([SlCur EXCEPT !.flow = flow], pkt, res))
    /\ UNCHANGED <<sl_case, sl_now, sl_peak, sl_link>>

\* xquic can take datagrams again.
cb_dgram_write ==
    /\ sl_bp
    /\ sl_bp' = FALSE
    /\ UNCHANGED <<sl_case, sl_now, sl_peak, sl_flow, sl_red, sl_link, sl_ptb, sl_stat,
                   sl_net, sl_wire>>

\* xquic's word on a datagram, in any order and after any delay.
cli_dgram_notify(id, acked) ==
    LET n == IF acked THEN mqvpn_redundant_tx_on_acked(sl_red, id)
             ELSE mqvpn_redundant_tx_on_lost(sl_red, id)
        counts == n.ret \in {1, -1}
    IN  /\ sl_case.redundant # {}
        /\ id \in DOMAIN sl_net
        /\ sl_net[id].st = "flight"
        /\ sl_net' = [sl_net EXCEPT ![id].st = IF acked THEN "acked" ELSE "lost"]
        /\ sl_red' = n.red
        /\ sl_stat' = IF ~counts THEN sl_stat
                      ELSE IF acked THEN [sl_stat EXCEPT !.acked = @ + 1]
                      ELSE [sl_stat EXCEPT !.lost = @ + 1]
        /\ UNCHANGED <<sl_case, sl_now, sl_peak, sl_flow, sl_link, sl_bp, sl_ptb, sl_wire>>

\* A path goes, or comes back under another xquic path id.
PathMoves(p) ==
    /\ sl_link[p].xqc < sl_case.moves
    /\ sl_link' = [sl_link EXCEPT ![p] = IF @.live THEN [@ EXCEPT !.live = FALSE]
                                         ELSE [live |-> TRUE, xqc |-> @.xqc + 1]]
    /\ UNCHANGED <<sl_case, sl_now, sl_peak, sl_flow, sl_red, sl_bp, sl_ptb, sl_stat,
                   sl_net, sl_wire>>

tick_redundant_refresh(j) ==
    /\ sl_case.judged
    /\ LET r == redundant_usable_paths(sl_red)
       IN  sl_red' = IF usable = {} THEN r ELSE mqvpn_redundant_tx_update_mode(r, j)
    /\ UNCHANGED <<sl_case, sl_now, sl_peak, sl_flow, sl_link, sl_bp, sl_ptb, sl_stat,
                   sl_net, sl_wire>>

\* Time passes, or the clock steps back.
Clock(t) ==
    /\ t \in {sl_now + 1, sl_now - 1}
    /\ t \in 0..sl_case.time
    /\ t < sl_now => sl_peak = sl_now
    /\ sl_now' = t
    /\ sl_peak' = IF t > sl_peak THEN t ELSE sl_peak
    /\ UNCHANGED <<sl_case, sl_flow, sl_red, sl_link, sl_bp, sl_ptb, sl_stat, sl_net,
                   sl_wire>>

SlNext ==
    \/ \E pkt \in Packet, res \in Answers : mqvpn_client_on_tun_packet(pkt, res)
    \/ \E pkt \in Packet, res \in Answers : mqvpn_server_on_tun_packet(pkt, res)
    \/ cb_dgram_write
    \/ \E id \in DOMAIN sl_net, acked \in BOOLEAN : cli_dgram_notify(id, acked)
    \/ \E p \in Path : PathMoves(p)
    \/ \E j \in Judgement : tick_redundant_refresh(j)
    \/ \E t \in {sl_now - 1, sl_now + 1} : Clock(t)

SlSpec == SlInit /\ [][SlNext]_sl_vars

-----------------------------------------------------------------------------
(* Properties.                                                             *)

\* What the receiver relies on.  The packets of a flow that xquic took carry
\* consecutive numbers: a packet that was looked at and not taken
\* (backpressure, an error, an expired TTL, a full MTU) uses none up.  They
\* start again from 0 only after the flow has been idle for more than
\* egress_idle_timeout, a clock that stepped back notwithstanding; and
\* exactly the first reset_mark_packets of every such stretch carry RESET.
StampedInOrder ==
    \A k \in DOMAIN sl_wire :
        LET w == sl_wire[k]
        IN  \A i \in DOMAIN w :
                /\ w[i].reset = (w[i].seq < reset_mark_packets)
                /\ IF i = 1 THEN w[i].seq = 0
                   ELSE \/ w[i].seq = w[i-1].seq + 1
                        \/ /\ w[i].seq = 0
                           /\ w[i].peak - w[i-1].at > egress_idle_timeout

Used(t) == {i \in Slot : t.e[i].used}
Copies(o) == {id \in DOMAIN sl_net : sl_net[id].orig = o}
Originals == {sl_net[id].orig : id \in DOMAIN sl_net}

\* The books of redundant mode, whatever the order of the notices, through
\* table deletions, detached and rebound paths: every entry is found by its
\* key, an original counts its unresolved copies, a path counts the copies
\* sent on it since it was bound, and each original is counted once: as
\* acked with the first ack of a copy, as lost when its last copy is lost and
\* none was acked.
CopiesAccounted ==
    /\ \A t \in {sl_red.copies, sl_red.origs} :
          /\ t.n = Cardinality(Used(t)) /\ t.n <= RTX_CAP
          /\ \A i \in Used(t) : tab_find(t, t.e[i].key) = {i}
    /\ \A o \in Used(sl_red.origs) :
          sl_red.origs.e[o].a =
              Cardinality({c \in Used(sl_red.copies) :
                               sl_red.copies.e[c].a = sl_red.origs.e[o].key})
    /\ \A p \in Path : outstanding(sl_red, p) =
              Cardinality({c \in Used(sl_red.copies) : sl_red.copies.e[c].b = p})
    /\ \A c \in Used(sl_red.copies) : sl_net[sl_red.copies.e[c].key].st = "flight"
    /\ sl_stat.acked = Cardinality({o \in Originals :
                                       \E id \in Copies(o) : sl_net[id].st = "acked"})
    /\ sl_stat.lost = Cardinality({o \in Originals :
                                      \A id \in Copies(o) : sl_net[id].st = "lost"})
=============================================================================
