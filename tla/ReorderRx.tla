----------------------------- MODULE ReorderRx -----------------------------
(***************************************************************************)
(* The receive engine of the reorder shim (src/src/reorder_rx.c): a table  *)
(* of flows, each with the next sequence number it expects, a ring of      *)
(* packets that arrived ahead of it, and a gap timer.                      *)
(*                                                                         *)
(* Times are kept relative to now: a deadline is the time left to it, a    *)
(* past instant is its age, saturating at MaxAge.  The hash chains are not *)
(* modelled; where their order decides (equally old LRU victims) the model *)
(* picks any.                                                              *)
(***************************************************************************)
EXTENDS Integers, Sequences, FiniteSetsExt, SequencesExt

PowersOfTwo == {2 ^ n : n \in 0 .. 20}

CONSTANTS
    Keys,                           \* inner 5-tuples
    Wait,                           \* resolved gap wait of each flow, 0 = off
    Cap,                            \* resolved ring capacity of each flow
    MaxSeq,                         \* stands for the last wire sequence number
    Lens,                           \* packet lengths
    small_packet_threshold_bytes,
    max_buffer_bytes_per_flow,
    global_max_buffer_bytes,
    classify_window,
    ack_demote_max_large_packets,
    eval_force_no_demotion,
    reset_idle_grace,
    ingress_idle_timeout,
    max_flows,                      \* 0 = no cap
    MaxAge                          \* ages saturate here

ASSUME ReorderAssumption ==
    /\ IsFiniteSet(Keys)
    /\ Wait \in [Keys -> Nat]
    /\ Cap \in [Keys -> PowersOfTwo]
    /\ MaxSeq \in Nat /\ Lens \subseteq Nat \ {0}
    /\ \A c \in {small_packet_threshold_bytes, max_buffer_bytes_per_flow,
                 global_max_buffer_bytes, classify_window, max_flows,
                 ack_demote_max_large_packets, reset_idle_grace,
                 ingress_idle_timeout, MaxAge} : c \in Nat
    /\ eval_force_no_demotion \in BOOLEAN
    /\ MaxAge > reset_idle_grace /\ MaxAge > ingress_idle_timeout
    /\ \A k \in Keys : MaxAge > 2 * Wait[k]

VARIABLES
    flows,          \* the flow table
    pool_bytes_used,
    next_gap,       \* next_gap_us: no armed timer expires before it
    next_idle,      \* next_idle_us: no flow becomes idle before it
    ticked,         \* the engine was ticked since the clock last moved
    out             \* packets the last step delivered, in order

vars == <<flows, pool_bytes_used, next_gap, next_idle, ticked, out>>

----------------------------------------------------------------------------
(* Types *)

Seqs == 0 .. MaxSeq

NoFlow == [live |-> FALSE]

FreeSlot == [seq |-> -1, len |-> 0, age |-> 0]

slot == [seq : Seqs, len : Lens, age : 0 .. MaxAge]

\* UINT64_MAX as a time.
Never == MaxAge + 1

earlier(x, y) == IF x < y THEN x ELSE y

later(x) == IF x = MaxAge THEN x ELSE x + 1

sooner(x) == IF x \in {0, Never} THEN x ELSE x - 1

\* calloc, then ring_init.  gaps is gap_count less the five counters of how a
\* period ended.
fresh_flow ==
    [live |-> TRUE, initialized |-> FALSE, expected |-> 0,
     slots |-> << >>, size |-> 0, count |-> 0, bytes |-> 0,
     gap_timer_active |-> FALSE, gap_left |-> 0, rx_next |-> 0, reord |-> 0,
     age |-> MaxAge, pass_through |-> FALSE, classify_seen |-> 0,
     classify_large |-> 0, gaps |-> 0]

live == {k \in Keys : flows[k].live}

----------------------------------------------------------------------------
(* The ring: the packet with sequence number s is in slot s % size *)

ring_empty(f) == f.count = 0

ring_far_ahead(k, s, expected) == s - expected >= Cap[k]

ring_contains(f, s) == f.size > 0 /\ f.slots[s % f.size].seq = s

buffered(f) == {f.slots[i].seq : i \in DOMAIN f.slots} \ {-1}

\* Doubles the array until it covers the span, and rehashes.
ring_grow_to_cover(k, f, span) ==
    LET want == Min({w \in PowersOfTwo :
                        w >= f.size /\ (w > span \/ w >= Cap[k])})
        at(i) == {s \in {f.slots[j] : j \in DOMAIN f.slots} : s.seq >= 0 /\ s.seq % want = i}
    IN  [f EXCEPT !.size = want,
                  !.slots = [i \in 0 .. want - 1 |->
                                IF at(i) = {} THEN FreeSlot ELSE CHOOSE s \in at(i) : TRUE]]

ring_insert(k, f, s, len) ==
    LET span == s - f.expected
        g == IF f.size = 0 \/ span >= f.size THEN ring_grow_to_cover(k, f, span) ELSE f
    IN  [g EXCEPT !.slots[s % g.size] = [seq |-> s, len |-> len, age |-> 0],
                  !.count = @ + 1, !.bytes = @ + len]

bytes_of(f, S) ==
    MapThenSumSet(LAMBDA i : IF f.slots[i].seq \in S THEN f.slots[i].len ELSE 0,
                  DOMAIN f.slots)

ring_remove(f, S) ==
    [f EXCEPT !.slots = [i \in DOMAIN f.slots |->
                            IF f.slots[i].seq \in S THEN FreeSlot ELSE f.slots[i]],
              !.count = @ - Cardinality(S), !.bytes = @ - bytes_of(f, S)]

ring_free(f) == [f EXCEPT !.slots = << >>, !.size = 0, !.count = 0, !.bytes = 0]

----------------------------------------------------------------------------
(* The handlers work on an engine as seen from one flow: e.f is the flow   *)
(* with key e.k, e.pool, e.gap and e.out stand for pool_bytes_used,        *)
(* next_gap and out.                                                       *)

engine(k, f, o) == [k |-> k, f |-> f, pool |-> pool_bytes_used, gap |-> next_gap, out |-> o]

pool_release(pool, len) == IF pool >= len THEN pool - len ELSE 0

\* How a packet came to be delivered: "start" for the first of an epoch, "pass"
\* for a demoted flow, "order" for the rest.
deliver_pkt(e, s, how) == [e EXCEPT !.out = Append(@, [key |-> e.k, seq |-> s, how |-> how])]

\* Delivers what is buffered below x, in ascending order, and expects x next.
deliver_below(e, x) ==
    LET S == {s \in buffered(e.f) : s < x}
        sorted == SetToSortSeq(S, <)
    IN  [e EXCEPT !.f = [ring_remove(e.f, S) EXCEPT !.expected = x],
                  !.pool = pool_release(@, bytes_of(e.f, S)),
                  !.out = @ \o [i \in DOMAIN sorted |->
                                   [key |-> e.k, seq |-> sorted[i], how |-> "order"]]]

\* The sequence numbers that end a contiguous run of buffered packets.
run_ends(f) == {s + 1 : s \in buffered(f)} \ buffered(f)

drain_contiguous(e) ==
    IF ring_contains(e.f, e.f.expected)
    THEN deliver_below(e, Min({x \in run_ends(e.f) : x > e.f.expected})) ELSE e

----------------------------------------------------------------------------
(* Wait periods: one run of the gap timer, for the gaps below the mark reord *)

arm_gap_timer(e) ==
    [e EXCEPT !.f.gap_timer_active = TRUE, !.f.gap_left = Wait[e.k],
              !.gap = earlier(Wait[e.k], @)]

stop_gap_timer(f) == [f EXCEPT !.gap_timer_active = FALSE, !.gap_left = 0]

period_end_if_done(e) ==
    IF e.f.gap_timer_active /\ (ring_empty(e.f) \/ e.f.expected >= e.f.reord)
    THEN [e EXCEPT !.f = [stop_gap_timer(e.f) EXCEPT !.gaps = @ - 1]] ELSE e

period_start_if_needed(e) ==
    IF ~e.f.gap_timer_active /\ ~ring_empty(e.f)
    THEN arm_gap_timer([e EXCEPT !.f.reord = e.f.rx_next, !.f.gaps = @ + 1]) ELSE e

skip_to_lowest_and_drain(e) ==
    LET d == deliver_below(e, Min(run_ends(e.f))) IN [d EXCEPT !.f.age = 0]

\* Mutant: the comparison of the loop is the wrong way round, so it delivers nothing.
on_gap_timeout_stuck(e) ==
    IF ring_empty(e.f) THEN [e EXCEPT !.f = stop_gap_timer(@)]
    ELSE LET d == IF e.f.expected <= e.f.reord THEN e
                  ELSE deliver_below(e, Max(run_ends(e.f)))
         IN  period_start_if_needed(
                 [d EXCEPT !.f = [stop_gap_timer(d.f) EXCEPT !.gaps = @ - 1, !.age = 0]])

\* Delivers run after run until the mark is reached.
on_gap_timeout(e) ==
    IF ring_empty(e.f) THEN [e EXCEPT !.f = stop_gap_timer(@)]
    ELSE LET past == {x \in run_ends(e.f) : x >= e.f.reord}
             d == IF e.f.expected >= e.f.reord THEN e
                  ELSE deliver_below(e, IF past = {} THEN Max(run_ends(e.f)) ELSE Min(past))
         IN  period_start_if_needed(
                 [d EXCEPT !.f = [stop_gap_timer(d.f) EXCEPT !.gaps = @ - 1, !.age = 0]])

overflow_flush(e) == period_start_if_needed(period_end_if_done(skip_to_lowest_and_drain(e)))

\* Drops what the old epoch left and forgets how the flow was classified.
reset_reorder_flow(e) ==
    [e EXCEPT !.pool = pool_release(@, e.f.bytes),
              !.f = [ring_free(stop_gap_timer(e.f)) EXCEPT
                        !.gaps = IF e.f.gap_timer_active THEN @ - 1 ELSE @,
                        !.rx_next = 0, !.reord = 0, !.pass_through = FALSE,
                        !.classify_seen = 0, !.classify_large = 0]]

\* Mutant: demotion drops the buffer as a reset does.
discard_for_demote(e) ==
    [e EXCEPT !.pool = pool_release(@, e.f.bytes),
              !.f = [ring_free(stop_gap_timer(e.f)) EXCEPT
                        !.gaps = IF e.f.gap_timer_active THEN @ - 1 ELSE @, !.age = 0]]

flush_buffer_for_demote(e) ==
    LET d == IF ring_empty(e.f) THEN e ELSE deliver_below(e, Max(run_ends(e.f)))
    IN  [d EXCEPT !.f = [ring_free(stop_gap_timer(d.f)) EXCEPT
                            !.gaps = IF e.f.gap_timer_active THEN @ - 1 ELSE @,
                            !.age = 0]]

----------------------------------------------------------------------------
(* One packet; a result is the engine after it and what became of it *)

result(e, res) == [e |-> e, res |-> res]

would_exceed_per_flow_limits(e, len) ==
    e.f.count >= Cap[e.k] \/ e.f.bytes + len > max_buffer_bytes_per_flow

pool_would_exhaust(e, len) == e.pool + len > global_max_buffer_bytes

buffer_insert_committed(e, s, len, oom) ==
    IF oom THEN result(e, "DROPPED_LIMIT")
    ELSE result(period_start_if_needed(
                    [e EXCEPT !.f = [ring_insert(e.k, e.f, s, len) EXCEPT
                                        !.age = 0,
                                        !.rx_next = IF s + 1 > @ THEN s + 1 ELSE @],
                              !.pool = @ + len]), "BUFFERED")

in_order(e, s) ==
    LET d == deliver_pkt([e EXCEPT !.f.expected = s + 1, !.f.age = 0], s, "order")
    IN  result(period_start_if_needed(period_end_if_done(drain_contiguous(d))), "DELIVERED")

reclassify_after_flush(e, s) ==
    CASE s < e.f.expected -> result(e, "DROPPED_LATE")
      [] s = e.f.expected -> in_order(e, s)
      [] s > e.f.expected /\ ring_far_ahead(e.k, s, e.f.expected) ->
             result(e, "DROPPED_FAR_AHEAD")
      [] s > e.f.expected /\ ~ring_far_ahead(e.k, s, e.f.expected) ->
             result(e, IF ring_contains(e.f, s) THEN "DROPPED_LIMIT" ELSE "BUFFERED")

\* A full flow or pool gives way to the packet if flushing the flow's own buffer
\* can make room.
make_room(e, s, full) ==
    IF ~full THEN result(e, "BUFFERED")
    ELSE IF ring_empty(e.f) THEN result(e, "DROPPED_LIMIT")
    ELSE reclassify_after_flush(overflow_flush(e), s)

buffer_admit(e, s, len, oom) ==
    LET a == make_room(e, s, would_exceed_per_flow_limits(e, len))
        b == make_room(a.e, s, pool_would_exhaust(a.e, len))
    IN  IF ring_contains(e.f, s) THEN result(e, "DROPPED_LIMIT")
        ELSE IF a.res # "BUFFERED" THEN a
        ELSE IF b.res # "BUFFERED" THEN b
        ELSE IF pool_would_exhaust(b.e, len) THEN result(b.e, "DROPPED_LIMIT")
        ELSE buffer_insert_committed(b.e, s, len, oom)

\* The first packet of an epoch is delivered whatever its number.
start_epoch(e, s) ==
    deliver_pkt([e EXCEPT !.f.initialized = TRUE, !.f.expected = s + 1, !.f.age = 0], s, "start")

\* Mutant: a late packet is delivered after all.
process_and_deliver_late(e, s, len, oom) ==
    CASE ~e.f.initialized -> result(start_epoch(e, s), "DELIVERED")
      [] e.f.initialized /\ s = e.f.expected -> in_order(e, s)
      [] e.f.initialized /\ s < e.f.expected -> result(deliver_pkt(e, s, "order"), "DELIVERED")
      [] e.f.initialized /\ s > e.f.expected ->
             IF ring_far_ahead(e.k, s, e.f.expected) THEN result(e, "DROPPED_FAR_AHEAD")
             ELSE buffer_admit(e, s, len, oom)

process_reorder_packet(e, s, len, oom) ==
    CASE ~e.f.initialized -> result(start_epoch(e, s), "DELIVERED")
      [] e.f.initialized /\ s = e.f.expected -> in_order(e, s)
      [] e.f.initialized /\ s < e.f.expected -> result(e, "DROPPED_LATE")
      [] e.f.initialized /\ s > e.f.expected ->
             IF ring_far_ahead(e.k, s, e.f.expected) THEN result(e, "DROPPED_FAR_AHEAD")
             ELSE buffer_admit(e, s, len, oom)

\* Classifying stops when the window has been seen.
classify_update(f, len) ==
    IF eval_force_no_demotion \/ f.classify_seen >= classify_window THEN f
    ELSE [f EXCEPT !.classify_seen = @ + 1,
                   !.classify_large = IF len >= small_packet_threshold_bytes THEN @ + 1 ELSE @]

classify_demoted(f, g) ==
    /\ f.classify_seen < g.classify_seen /\ g.classify_seen = classify_window
    /\ g.classify_large <= ack_demote_max_large_packets

demote(e) == LET d == flush_buffer_for_demote(e) IN [d EXCEPT !.f.pass_through = TRUE]

classify(r, len) ==
    LET f == classify_update(r.e.f, len)
        e == [r.e EXCEPT !.f = f]
    IN  IF r.res \notin {"DELIVERED", "BUFFERED", "DROPPED_LATE"} THEN r.e
        ELSE IF classify_demoted(r.e.f, f) THEN demote(e) ELSE e

honour_reset(f, reset) == reset /\ (~f.initialized \/ f.age > reset_idle_grace)

on_reordered(e, s, reset, len, oom) ==
    IF honour_reset(e.f, reset) THEN start_epoch(reset_reorder_flow(e), s)
    ELSE IF e.f.pass_through THEN deliver_pkt([e EXCEPT !.f.age = 0], s, "pass")
    ELSE classify(process_reorder_packet(e, s, len, oom), len)

----------------------------------------------------------------------------
(* The flow table *)

Init ==
    /\ flows = [k \in Keys |-> NoFlow]
    /\ pool_bytes_used = 0
    /\ next_gap = 0 /\ next_idle = 0
    /\ ticked = TRUE
    /\ out = << >>

\* What destroying the flows in K leaves behind.
without(K) == [k \in Keys |-> IF k \in K THEN NoFlow ELSE flows[k]]

\* Mutant: an evicted flow's bytes stay charged to the pool.
pool_leaked(K) == pool_bytes_used

pool_without(K) == pool_release(pool_bytes_used, MapThenSumSet(LAMBDA k : flows[k].bytes, K))

table_full == max_flows > 0 /\ Cardinality(live) >= max_flows

\* The flows evict_lru_flow may pick to make room for k.
evict_lru_flow(k) ==
    IF k \notin live /\ table_full
    THEN {{v} : v \in {v \in live : \A u \in live : flows[u].age <= flows[v].age}} ELSE {{}}

\* A packet of flow k.  oom: the allocation of a new flow fails, or that of an old
\* one's slot or copy of the packet, which is made only for a packet that is ahead.
mqvpn_reorder_rx_on_packet(k, s, reset, len, oom) ==
    /\ oom /\ k \in live => s > flows[k].expected
    /\ ticked' = ticked
    /\ IF Wait[k] = 0
       THEN /\ out' = << [key |-> k, seq |-> s, how |-> "pass"] >>
            /\ UNCHANGED <<flows, pool_bytes_used, next_gap, next_idle>>
       ELSE \E K \in evict_lru_flow(k) :
                LET f == IF k \in live THEN flows[k] ELSE fresh_flow
                    e == on_reordered([engine(k, f, << >>) EXCEPT !.pool = pool_without(K)],
                                      s, reset, len, oom)
                IN  IF k \notin live /\ oom
                    THEN /\ flows' = without(K) /\ pool_bytes_used' = pool_without(K)
                         /\ out' = << >>
                         /\ UNCHANGED <<next_gap, next_idle>>
                    ELSE /\ flows' = [without(K) EXCEPT ![k] = e.f]
                         /\ pool_bytes_used' = e.pool
                         /\ next_gap' = e.gap
                         /\ next_idle' = IF k \in live THEN next_idle ELSE 0
                         /\ out' = e.out

----------------------------------------------------------------------------
(* The tick *)

overdue == {k \in live : flows[k].gap_timer_active /\ flows[k].gap_left = 0}

\* The flow k as the sweep of the gap timers leaves it.
swept(k) == on_gap_timeout([engine(k, flows[k], << >>) EXCEPT !.gap = Never])

\* The earliest deadline after the sweep, re-armed timers included.
next_gap_after == 
    Min({Never} \cup {swept(k).gap : k \in overdue}
                \cup {flows[k].gap_left : k \in {j \in live \ overdue : flows[j].gap_timer_active}})

gap_sweep(k) == IF next_gap = 0 /\ k \in overdue THEN swept(k).f ELSE flows[k]

idle(f) == f.age > ingress_idle_timeout

next_idle_after(K) ==
    Min({Never} \cup {ingress_idle_timeout + 1 - gap_sweep(k).age : k \in K})

\* Gap timeouts, then idle eviction, each only once its bound has passed.
mqvpn_reorder_rx_tick ==
    LET after == [k \in live |-> gap_sweep(k)]
        gone  == IF next_idle = 0 THEN {k \in live : idle(after[k])} ELSE {}
        sum(op(_)) == MapThenSumSet(op, live \ gone)
    IN  /\ ticked' = TRUE
        /\ IF live = {}
           THEN out' = << >> /\ UNCHANGED <<flows, pool_bytes_used, next_gap, next_idle>>
           ELSE /\ flows' = [k \in Keys |-> IF k \in live \ gone THEN after[k] ELSE NoFlow]
                /\ pool_bytes_used' =
                       pool_release(pool_bytes_used,
                                    MapThenSumSet(LAMBDA k : flows[k].bytes, live)
                                    - sum(LAMBDA k : after[k].bytes))
                /\ next_gap' = IF next_gap = 0 THEN next_gap_after ELSE next_gap
                /\ next_idle' = IF next_idle = 0 THEN next_idle_after(live \ gone) ELSE next_idle
                /\ \E order \in SetToSeqs(IF next_gap = 0 THEN overdue ELSE {}) :
                       out' = FlattenSeq([i \in DOMAIN order |-> swept(order[i]).out])

\* Time passes; the platform ticks the engine before it passes again.
Elapse ==
    /\ ticked
    /\ ticked' = FALSE
    /\ flows' = [k \in Keys |->
                    IF k \notin live THEN NoFlow
                    ELSE [flows[k] EXCEPT
                             !.age = later(@), !.gap_left = sooner(@),
                             !.slots = [i \in DOMAIN @ |->
                                           IF @[i] = FreeSlot THEN FreeSlot
                                           ELSE [@[i] EXCEPT !.age = later(@)]]]]
    /\ next_gap' = sooner(next_gap) /\ next_idle' = sooner(next_idle)
    /\ out' = << >>
    /\ UNCHANGED <<pool_bytes_used>>

\* The session ends and the next one gets a new engine.
mqvpn_reorder_rx_free ==
    /\ flows' = [k \in Keys |-> NoFlow]
    /\ pool_bytes_used' = 0
    /\ next_gap' = 0 /\ next_idle' = 0
    /\ ticked' = TRUE
    /\ out' = << >>

Next ==
    \/ \E k \in Keys, s \in Seqs, reset \in BOOLEAN, len \in Lens, oom \in BOOLEAN :
           mqvpn_reorder_rx_on_packet(k, s, reset, len, oom)
    \/ mqvpn_reorder_rx_tick
    \/ Elapse
    \/ mqvpn_reorder_rx_free

Spec == Init /\ [][Next]_vars

----------------------------------------------------------------------------
(* Properties *)

TypeOK ==
    /\ \A k \in live :
          LET f == flows[k]
          IN  /\ f.initialized /\ f.expected \in 0 .. MaxSeq + 1
              /\ f.size \in {0} \cup PowersOfTwo
              /\ f.slots \in [0 .. f.size - 1 -> slot \cup {FreeSlot}]
              /\ f.count \in Nat /\ f.bytes \in Nat
              /\ f.gap_timer_active \in BOOLEAN /\ f.gap_left \in 0 .. Wait[k]
              /\ f.rx_next \in 0 .. MaxSeq + 1 /\ f.reord \in 0 .. MaxSeq + 1
              /\ f.age \in 0 .. MaxAge /\ f.pass_through \in BOOLEAN
              /\ f.classify_seen \in 0 .. classify_window
              /\ f.classify_large \in 0 .. f.classify_seen
    /\ pool_bytes_used \in Nat
    /\ next_gap \in 0 .. Never /\ next_idle \in 0 .. Never
    /\ ticked \in BOOLEAN

\* The invariants the comment above arm_gap_timer states, between operations: the
\* timer runs exactly while something is buffered, and the mark lies above
\* expected, right above a buffered packet.  Each period that was started has ended
\* in exactly one of the five ways, except the one that is running.
TimerInvariant ==
    \A k \in live :
        LET f == flows[k]
        IN  /\ f.gap_timer_active <=> ~ring_empty(f)
            /\ f.gaps = IF f.gap_timer_active THEN 1 ELSE 0
            /\ f.gap_timer_active =>
                   f.expected < f.reord /\ f.reord <= f.rx_next /\ ring_contains(f, f.reord - 1)

\* The ring holds what was put in it: everything in it lies in the window above
\* expected, in its own slot, and count and bytes agree with the slots.  Growing,
\* skipping and draining never let two packets of the window share a slot, and a
\* demoted flow holds nothing back.  The state has its types and the gap timer its
\* invariants.
RingInvariant ==
    /\ TypeOK
    /\ TimerInvariant
    /\ \A k \in live :
          LET f == flows[k]
          IN  /\ f.size <= Cap[k]
              /\ \A s \in buffered(f) :
                     /\ s > f.expected /\ s < f.expected + f.size
                     /\ ring_contains(f, s)
              /\ f.count = Cardinality(buffered(f))
              /\ f.bytes = bytes_of(f, buffered(f))
              /\ f.pass_through => ring_empty(f)

\* The shared pool is charged for exactly what the rings hold, over flows that are
\* flushed, demoted, reset, evicted or destroyed, and stays within its budget.
PoolAccounting ==
    /\ pool_bytes_used = MapThenSumSet(LAMBDA k : flows[k].bytes, live)
    /\ pool_bytes_used <= global_max_buffer_bytes

\* No packet waits longer than two wait periods, whatever gaps arrivals open
\* before it and however often the timer is re-armed ("bounded by 2W", 12.2).
BoundedResidence ==
    \A k \in live : \A i \in DOMAIN flows[k].slots : flows[k].slots[i].age <= 2 * Wait[k]

\* The cached bounds never make a tick skip work: after it no timer is overdue and
\* no idle flow is left in the table.
TickMissesNothing == ticked => \A k \in live : k \notin overdue /\ ~idle(flows[k])

\* The table's own books: the pool is charged right and no tick misses a flow.
TableInvariant == PoolAccounting /\ TickMissesNothing

ordered(k) == SelectSeq(out', LAMBDA d : d.key = k /\ d.how = "order")

\* Within an epoch the shim delivers in order and nothing twice: what a step
\* delivers ascends, from what the flow expected before it to what it expects
\* after it, and a flow's expectation moves back only when an epoch starts.
DeliversInOrder ==
    [][\A k \in live :
          LET o == ordered(k)
              starts == \E i \in DOMAIN out' : out'[i].key = k /\ out'[i].how = "start"
          IN  /\ \A i \in DOMAIN o :
                     /\ o[i].seq >= flows[k].expected
                     /\ k \in live' => o[i].seq < flows'[k].expected
                     /\ i > 1 => o[i - 1].seq < o[i].seq
              /\ k \in live' /\ ~starts => flows'[k].expected >= flows[k].expected]_vars

\* A packet in the buffer stays there or is delivered; only a new epoch, or the
\* end of its flow, discards it.
NothingLost ==
    [][\A k \in live :
          \/ k \notin live'
          \/ \E i \in DOMAIN out' : out'[i].key = k /\ out'[i].how = "start"
          \/ buffered(flows[k]) \subseteq
                 buffered(flows'[k]) \cup {o.seq : o \in {ordered(k)[i] : i \in DOMAIN ordered(k)}}]_vars
=============================================================================
