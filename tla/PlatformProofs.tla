--------------------------- MODULE PlatformProofs ---------------------------
(***************************************************************************)
(* Proofs about two parts of the client, for every configuration.          *)
(* The sender (SenderLanes) stamps the packets of a flow in order, however *)
(* its table of flows is searched, filled, cleaned and shifted: a flow of  *)
(* the table goes on from the last packet on the wire, or starts from 0    *)
(* after the timeout.                                                      *)
(* The network monitor (NetMon) is sound, and acts for cause: a slot is    *)
(* either open (socket, read event, one transport, full failure budget) or *)
(* shut; each handler maps a table of such slots to another, and moves     *)
(* sockets for cause only.  The timer's scan is a loop over the slots,     *)
(* followed step by step up to the first slot at which it could go wrong.  *)
(***************************************************************************)
EXTENDS NetMon, SenderLanes, WellFoundedInduction, TLAPS

-----------------------------------------------------------------------------
(* The sender's stamps.                                                    *)

Stamp == [seq : Nat, reset : BOOLEAN, at : Nat, peak : Nat]
SendFlow == [next_seq : Nat, last_activity : Nat, reset_marks_left : Nat, eligible : BOOLEAN]

MarksLeft(n) == IF n < reset_mark_packets THEN reset_mark_packets - n ELSE 0

\* A flow with packets on the wire goes on from the last of them; a flow that
\* starts from 0, or has left the table, has none newer than the timeout.
Continues(f, w) ==
    w # <<>> /\ f.next_seq = w[Len(w)].seq + 1 /\ f.last_activity = w[Len(w)].at
Restarts(w, peak) == w = <<>> \/ peak - w[Len(w)].at > egress_idle_timeout

Follows(flow, k, w, peak) ==
    IF k \in DOMAIN flow /\ flow[k].next_seq # 0 THEN Continues(flow[k], w)
    ELSE Restarts(w, peak)

FlowGood(f, k) ==
    /\ f \in SendFlow
    /\ f.eligible => k \in sl_case.keys
    /\ f.reset_marks_left = MarksLeft(f.next_seq)

FlowsGood(flow, wire, peak) ==
    /\ flow = [k \in DOMAIN flow |-> flow[k]]
    /\ \A k \in DOMAIN flow : FlowGood(flow[k], k)
    /\ \A k \in sl_case.keys : Follows(flow, k, wire[k], peak)

InOrder(w) ==
    \A i \in DOMAIN w :
        /\ w[i].reset = (w[i].seq < reset_mark_packets)
        /\ IF i = 1 THEN w[i].seq = 0
           ELSE \/ w[i].seq = w[i-1].seq + 1
                \/ w[i].seq = 0 /\ w[i].peak - w[i-1].at > egress_idle_timeout

WireGood(wire) ==
    /\ wire \in [sl_case.keys -> Seq(Stamp)]
    /\ \A k \in sl_case.keys : InOrder(wire[k])

\* The inductive invariant.
SlInv ==
    /\ sl_case \in SlCases
    /\ sl_now \in Nat /\ sl_peak \in Nat /\ sl_now <= sl_peak
    /\ WireGood(sl_wire)
    /\ FlowsGood(sl_flow, sl_wire, sl_peak)

\* What a commit makes of a flow, and the packet it lets out.
Advanced(f) == [f EXCEPT !.next_seq = @ + 1, !.last_activity = sl_now,
                         !.reset_marks_left = IF @ > 0 THEN @ - 1 ELSE 0]
StampOf(f) == [seq |-> f.next_seq, reset |-> f.reset_marks_left > 0,
               at |-> sl_now, peak |-> sl_peak]

AdvancedIn(flow, k) == [flow EXCEPT ![k] = Advanced(flow[k])]
StampedOn(wire, flow, k) == [wire EXCEPT ![k] = Append(@, StampOf(flow[k]))]

\* A committed flow is good, and numbered one on.
LEMMA AdvancedIs ==
    ASSUME SlInv, NEW k, NEW f, FlowGood(f, k)
    PROVE  /\ FlowGood(Advanced(f), k)
           /\ Advanced(f).next_seq = f.next_seq + 1
           /\ Advanced(f).last_activity = sl_now
  <1>1. /\ f.next_seq \in Nat /\ f.last_activity \in Nat /\ f.reset_marks_left \in Nat
        /\ f.eligible \in BOOLEAN /\ (f.eligible => k \in sl_case.keys)
        /\ f.reset_marks_left = MarksLeft(f.next_seq)
        /\ f \in SendFlow
    BY Zenon DEF FlowGood, SendFlow
  <1>2. PICK m : m = IF f.reset_marks_left > 0 THEN f.reset_marks_left - 1 ELSE 0
    BY Zenon
  <1>3. m \in Nat /\ m = MarksLeft(f.next_seq + 1)
    BY <1>1, <1>2, SenderAssumption DEF MarksLeft
  <1>4. PICK n : n = f.next_seq + 1
    BY Zenon
  <1>5. PICK g : g = [f EXCEPT !.next_seq = n, !.last_activity = sl_now, !.reset_marks_left = m]
    BY Zenon
  <1>6. n \in Nat /\ sl_now \in Nat
    BY <1>1, <1>4 DEF SlInv
  <1>7. /\ g.next_seq = n /\ g.last_activity = sl_now /\ g.reset_marks_left = m
        /\ g.eligible = f.eligible /\ g \in SendFlow
    BY <1>1, <1>3, <1>5, <1>6, Zenon DEF SendFlow
  <1>8. Advanced(f) = g
    BY <1>1, <1>2, <1>4, <1>5, Zenon DEF Advanced
  <1> QED BY <1>1, <1>3, <1>4, <1>7, <1>8, Zenon DEF FlowGood

\* The packet a commit lets out follows the last one of its flow.
LEMMA StampFollows ==
    ASSUME SlInv, NEW k, NEW f, FlowGood(f, k), NEW w \in Seq(Stamp), InOrder(w),
           IF f.next_seq # 0 THEN Continues(f, w) ELSE Restarts(w, sl_peak)
    PROVE  /\ Append(w, StampOf(f)) \in Seq(Stamp)
           /\ InOrder(Append(w, StampOf(f)))
           /\ Continues(Advanced(f), Append(w, StampOf(f)))
  <1>1. /\ f.next_seq \in Nat /\ f.last_activity \in Nat /\ f.reset_marks_left \in Nat
        /\ f.reset_marks_left = MarksLeft(f.next_seq)
    BY Zenon DEF FlowGood, SendFlow
  <1>2. PICK e : e = StampOf(f)
    BY Zenon
  <1>3. /\ e \in Stamp
        /\ e.seq = f.next_seq /\ e.at = sl_now /\ e.peak = sl_peak
        /\ e.reset = (f.reset_marks_left > 0)
    BY <1>1, <1>2 DEF StampOf, Stamp, SlInv
  <1>4. e.reset = (e.seq < reset_mark_packets)
    BY <1>1, <1>3, SenderAssumption DEF MarksLeft
  <1>5. PICK v : v = Append(w, e)
    BY Zenon
  <1>6. /\ v \in Seq(Stamp) /\ Len(v) = Len(w) + 1 /\ v[Len(v)] = e /\ v # <<>>
        /\ \A i \in 1..Len(w) : v[i] = w[i]
        /\ DOMAIN v = 1..(Len(w) + 1) /\ DOMAIN w = 1..Len(w) /\ Len(w) \in Nat
    BY <1>3, <1>5
  <1>7. InOrder(v)
    <2> SUFFICES ASSUME NEW i \in DOMAIN v
                 PROVE  /\ v[i].reset = (v[i].seq < reset_mark_packets)
                        /\ IF i = 1 THEN v[i].seq = 0
                           ELSE \/ v[i].seq = v[i-1].seq + 1
                                \/ v[i].seq = 0 /\ v[i].peak - v[i-1].at > egress_idle_timeout
      BY Zenon DEF InOrder
    <2>1. CASE i \in 1..Len(w)
      <3>1. v[i] = w[i] /\ (i # 1 => v[i-1] = w[i-1])
        BY <1>6, <2>1
      <3> QED BY <1>6, <2>1, <3>1, Zenon DEF InOrder
    <2>2. CASE i = Len(w) + 1
      <3>1. v[i] = e /\ (i # 1 => v[i-1] = w[Len(w)])
        BY <1>6, <2>2
      <3>2. CASE w = <<>>
        <4>1. f.next_seq = 0 /\ i = 1
          BY <2>2, <3>2 DEF Continues
        <4> QED BY <1>3, <1>4, <3>1, <4>1, Zenon
      <3>3. CASE w # <<>>
        <4>1. i # 1
          BY <1>6, <2>2, <3>3
        <4>2. CASE f.next_seq = 0
          <5>1. sl_peak - w[Len(w)].at > egress_idle_timeout
            BY <3>3, <4>2, Zenon DEF Restarts
          <5> QED BY <1>3, <1>4, <3>1, <4>1, <4>2, <5>1, Zenon
        <4>3. CASE f.next_seq # 0
          <5>1. f.next_seq = w[Len(w)].seq + 1
            BY <4>3, Zenon DEF Continues
          <5> QED BY <1>3, <1>4, <3>1, <4>1, <5>1, Zenon
        <4> QED BY <4>2, <4>3, Zenon
      <3> QED BY <3>2, <3>3, Zenon
    <2> QED BY <1>6, <2>1, <2>2
  <1>8. Continues(Advanced(f), v)
    BY <1>3, <1>6, AdvancedIs, Zenon DEF Continues
  <1> QED BY <1>2, <1>5, <1>6, <1>7, <1>8, Zenon

\* A commit keeps the table and the wire good.
LEMMA CommitGood ==
    ASSUME SlInv, NEW flow, FlowsGood(flow, sl_wire, sl_peak),
           NEW k \in DOMAIN flow, flow[k].eligible
    PROVE  /\ WireGood(StampedOn(sl_wire, flow, k))
           /\ FlowsGood(AdvancedIn(flow, k), StampedOn(sl_wire, flow, k), sl_peak)
  <1>1. k \in sl_case.keys /\ FlowGood(flow[k], k)
    BY Zenon DEF FlowsGood, FlowGood
  <1>2. sl_wire \in [sl_case.keys -> Seq(Stamp)] /\ \A j \in sl_case.keys : InOrder(sl_wire[j])
    BY Zenon DEF SlInv, WireGood
  <1>3. PICK v : v = Append(sl_wire[k], StampOf(flow[k]))
    BY Zenon
  <1>4. v \in Seq(Stamp) /\ InOrder(v) /\ Continues(Advanced(flow[k]), v)
    <2>1. IF flow[k].next_seq # 0 THEN Continues(flow[k], sl_wire[k])
          ELSE Restarts(sl_wire[k], sl_peak)
      BY <1>1, Zenon DEF FlowsGood, Follows
    <2>2. sl_wire[k] \in Seq(Stamp) /\ InOrder(sl_wire[k])
      BY <1>1, <1>2, Zenon
    <2> QED BY <1>1, <1>3, <2>1, <2>2, StampFollows, Zenon
  <1>5. PICK x : x = StampedOn(sl_wire, flow, k)
    BY Zenon
  <1>6. /\ x \in [sl_case.keys -> Seq(Stamp)] /\ x[k] = v
        /\ \A j \in sl_case.keys \ {k} : x[j] = sl_wire[j]
    BY <1>1, <1>2, <1>3, <1>4, <1>5, Zenon DEF StampedOn
  <1>7. WireGood(x)
    BY <1>2, <1>4, <1>6, Zenon DEF WireGood
  <1>8. PICK g : g = AdvancedIn(flow, k)
    BY Zenon
  <1>9. flow = [j \in DOMAIN flow |-> flow[j]]
    BY Zenon DEF FlowsGood
  <1>10. /\ DOMAIN g = DOMAIN flow /\ g = [j \in DOMAIN g |-> g[j]]
         /\ g[k] = Advanced(flow[k])
         /\ \A j \in DOMAIN flow \ {k} : g[j] = flow[j]
    BY <1>8, <1>9, Zenon DEF AdvancedIn
  <1>11. \A j \in DOMAIN g : FlowGood(g[j], j)
    <2>1. FlowGood(g[k], k)
      BY <1>1, <1>10, AdvancedIs, Zenon
    <2>2. \A j \in DOMAIN flow : FlowGood(flow[j], j)
      BY Zenon DEF FlowsGood
    <2> QED BY <1>10, <2>1, <2>2, Zenon
  <1>12. ASSUME NEW j \in sl_case.keys
         PROVE  Follows(g, j, x[j], sl_peak)
    <2>1. CASE j = k
      <3>1. g[k].next_seq # 0
        <4>1. flow[k].next_seq \in Nat /\ Advanced(flow[k]).next_seq = flow[k].next_seq + 1
          BY <1>1, AdvancedIs, Zenon DEF FlowGood, SendFlow
        <4> QED BY <1>10, <4>1
      <3> QED BY <1>4, <1>6, <1>10, <2>1, <3>1, Zenon DEF Follows
    <2>2. CASE j # k
      BY <1>6, <1>10, <2>2, Zenon DEF Follows, FlowsGood
    <2> QED BY <2>1, <2>2, Zenon
  <1> QED BY <1>5, <1>7, <1>8, <1>10, <1>11, <1>12, Zenon DEF FlowsGood

\* A flow is evicted only when its last packet is older than the timeout.
LEMMA WithoutGood ==
    ASSUME SlInv, NEW flow, FlowsGood(flow, sl_wire, sl_peak),
           NEW k \in DOMAIN flow, flow_idle(flow[k], sl_now)
    PROVE  FlowsGood(without(flow, k), sl_wire, sl_peak) /\ k \notin DOMAIN without(flow, k)
  <1>1. PICK g : g = without(flow, k)
    BY Zenon
  <1>2. /\ DOMAIN g = DOMAIN flow \ {k} /\ g = [j \in DOMAIN g |-> g[j]]
        /\ \A j \in DOMAIN g : g[j] = flow[j]
    BY <1>1, Zenon DEF without
  <1>3. \A j \in DOMAIN g : FlowGood(g[j], j)
    BY <1>2, Zenon DEF FlowsGood
  <1>4. ASSUME NEW j \in sl_case.keys
        PROVE  Follows(g, j, sl_wire[j], sl_peak)
    <2>0. Follows(flow, j, sl_wire[j], sl_peak)
      BY Zenon DEF FlowsGood
    <2>1. CASE j # k
      BY <1>2, <2>0, <2>1, Zenon DEF Follows
    <2>2. CASE j = k
      <3>1. CASE flow[k].next_seq = 0
        BY <1>2, <2>0, <2>2, <3>1, Zenon DEF Follows
      <3>2. CASE flow[k].next_seq # 0
        <4>1. flow[k].last_activity = sl_wire[k][Len(sl_wire[k])].at
          BY <2>0, <2>2, <3>2, Zenon DEF Follows, Continues
        <4>2. flow[k].last_activity \in Nat
          BY Zenon DEF FlowsGood, FlowGood, SendFlow
        <4>3. sl_peak - sl_wire[k][Len(sl_wire[k])].at > egress_idle_timeout
          BY <4>1, <4>2, SenderAssumption DEF SlInv, flow_idle
        <4> QED BY <1>2, <2>2, <4>3, Zenon DEF Follows, Restarts
      <3> QED BY <3>1, <3>2, Zenon
    <2> QED BY <2>1, <2>2, Zenon
  <1> QED BY <1>1, <1>2, <1>3, <1>4, Zenon DEF FlowsGood

\* The table with a new flow.
Added(flow, key) == [k \in DOMAIN flow \union {key} |->
                        IF k = key THEN new_flow(key, sl_now) ELSE flow[k]]

\* A new flow starts from 0.
LEMMA AddedGood ==
    ASSUME SlInv, NEW flow, FlowsGood(flow, sl_wire, sl_peak), NEW key, key \notin DOMAIN flow
    PROVE  FlowsGood(Added(flow, key), sl_wire, sl_peak)
  <1>1. PICK g : g = Added(flow, key)
    BY Zenon
  <1>2. /\ DOMAIN g = DOMAIN flow \union {key} /\ g = [j \in DOMAIN g |-> g[j]]
        /\ g[key] = new_flow(key, sl_now)
        /\ \A j \in DOMAIN flow : g[j] = flow[j]
    BY <1>1, Zenon DEF Added
  <1>3. FlowGood(g[key], key) /\ g[key].next_seq = 0
    <2>1. /\ 0 \in Nat /\ sl_now \in Nat /\ reset_mark_packets \in Nat
          /\ MarksLeft(0) = reset_mark_packets
      BY SenderAssumption DEF SlInv, MarksLeft
    <2>2. compute_eligible(key) \in BOOLEAN /\ (compute_eligible(key) => key \in sl_case.keys)
      BY DEF compute_eligible
    <2>3. PICK e : e = compute_eligible(key)
      BY Zenon
    <2>4. PICK f : f = [next_seq |-> 0, last_activity |-> sl_now,
                        reset_marks_left |-> reset_mark_packets, eligible |-> e]
      BY Zenon
    <2>5. g[key] = f
      BY <1>2, <2>3, <2>4, Zenon DEF new_flow
    <2>6. /\ f \in SendFlow /\ f.next_seq = 0 /\ f.reset_marks_left = reset_mark_packets
          /\ f.eligible = e
      BY <2>1, <2>2, <2>3, <2>4, Zenon DEF SendFlow
    <2> QED BY <2>1, <2>2, <2>3, <2>5, <2>6, Zenon DEF FlowGood
  <1>4. \A j \in DOMAIN g : FlowGood(g[j], j)
    BY <1>2, <1>3, Zenon DEF FlowsGood
  <1>5. \A j \in sl_case.keys : Follows(g, j, sl_wire[j], sl_peak)
    BY <1>2, <1>3, Zenon DEF FlowsGood, Follows
  <1> QED BY <1>1, <1>2, <1>4, <1>5, Zenon DEF FlowsGood

\* Whatever the lookup does to the table, it stays good.
LEMMA LookedGood ==
    ASSUME SlInv, NEW pkt, NEW flow \in Looked(pkt)
    PROVE  FlowsGood(flow, sl_wire, sl_peak)
  <1> DEFINE key == pkt.key
             victims == evict_one_idle(sl_flow, sl_now)
  <1>1. FlowsGood(sl_flow, sl_wire, sl_peak)
    BY Zenon DEF SlInv
  <1>2. CASE flow = sl_flow
    BY <1>1, <1>2, Zenon
  <1>3. CASE key \notin DOMAIN sl_flow /\ flow = Added(sl_flow, key)
    BY <1>1, <1>3, AddedGood, Zenon
  <1>4. ASSUME NEW k \in victims, key \notin DOMAIN sl_flow,
               flow \in {without(sl_flow, k), Added(without(sl_flow, k), key)}
        PROVE  FlowsGood(flow, sl_wire, sl_peak)
    <2>1. k \in DOMAIN sl_flow /\ flow_idle(sl_flow[k], sl_now)
      BY Zenon DEF evict_one_idle
    <2>2. FlowsGood(without(sl_flow, k), sl_wire, sl_peak)
      BY <1>1, <2>1, WithoutGood, Zenon
    <2>3. key \notin DOMAIN without(sl_flow, k)
      BY <1>4, Zenon DEF without
    <2> QED BY <1>4, <2>2, <2>3, AddedGood, Zenon
  <1>5. \/ flow = sl_flow
        \/ key \notin DOMAIN sl_flow /\ flow = Added(sl_flow, key)
        \/ /\ key \notin DOMAIN sl_flow
           /\ \E k \in victims : flow \in {without(sl_flow, k), Added(without(sl_flow, k), key)}
    BY Zenon DEF Looked, get_or_create, Added
  <1> QED BY <1>2, <1>3, <1>4, <1>5, Zenon

-----------------------------------------------------------------------------
(* What the send path leaves of the table and the wire.                    *)

\* q is the state of a handler, with this table and this wire.
Has(q, flow, wire) ==
    \E r, b, p, s, n : q = [flow |-> flow, red |-> r, bp |-> b, ptb |-> p, stat |-> s,
                            net |-> n, wire |-> wire]

\* Its table and its wire are these.
LEMMA HasFields ==
    ASSUME NEW q, NEW flow, NEW wire, Has(q, flow, wire)
    PROVE  q.flow = flow /\ q.wire = wire
  <1>1. PICK r, b, p, s, n : q = [flow |-> flow, red |-> r, bp |-> b, ptb |-> p, stat |-> s,
                                  net |-> n, wire |-> wire]
    BY Zenon DEF Has
  <1> QED BY <1>1, Zenon

\* Other fields are written apart from the two.
LEMMA HasKept ==
    ASSUME NEW q, NEW flow, NEW wire, Has(q, flow, wire), NEW x, NEW y,
           \/ y = [q EXCEPT !.red = x]
           \/ y = [q EXCEPT !.bp = x]
           \/ y = [q EXCEPT !.ptb = x]
           \/ y = [q EXCEPT !.net = x]
    PROVE  Has(y, flow, wire)
  <1>1. PICK r, b, p, s, n : q = [flow |-> flow, red |-> r, bp |-> b, ptb |-> p, stat |-> s,
                                  net |-> n, wire |-> wire]
    BY Zenon DEF Has
  <1>2. CASE y = [q EXCEPT !.red = x]
    <2>1. y = [flow |-> flow, red |-> x, bp |-> b, ptb |-> p, stat |-> s, net |-> n,
               wire |-> wire]
      BY <1>1, <1>2, Zenon
    <2> QED BY <2>1, Zenon DEF Has
  <1>3. CASE y = [q EXCEPT !.bp = x]
    <2>1. y = [flow |-> flow, red |-> r, bp |-> x, ptb |-> p, stat |-> s, net |-> n,
               wire |-> wire]
      BY <1>1, <1>3, Zenon
    <2> QED BY <2>1, Zenon DEF Has
  <1>4. CASE y = [q EXCEPT !.ptb = x]
    <2>1. y = [flow |-> flow, red |-> r, bp |-> b, ptb |-> x, stat |-> s, net |-> n,
               wire |-> wire]
      BY <1>1, <1>4, Zenon
    <2> QED BY <2>1, Zenon DEF Has
  <1>5. CASE y = [q EXCEPT !.net = x]
    <2>1. y = [flow |-> flow, red |-> r, bp |-> b, ptb |-> p, stat |-> s, net |-> x,
               wire |-> wire]
      BY <1>1, <1>5, Zenon
    <2> QED BY <2>1, Zenon DEF Has
  <1> QED BY <1>2, <1>3, <1>4, <1>5, Zenon

\* A packet too big, or expired, takes a token of the bucket.
LEMMA BucketKeeps ==
    ASSUME NEW q, NEW flow, NEW wire, Has(q, flow, wire)
    PROVE  Has(mqvpn_ptb_bucket_allow(q), flow, wire)
  <1>1. PICK x : mqvpn_ptb_bucket_allow(q) = [q EXCEPT !.ptb = x]
    BY Zenon DEF mqvpn_ptb_bucket_allow
  <1> QED BY <1>1, HasKept, Zenon

\* So does a datagram.
LEMMA TakenKeeps ==
    ASSUME NEW q, NEW flow, NEW wire, Has(q, flow, wire), NEW orig, NEW n
    PROVE  Has(Taken(q, orig, n), flow, wire)
  <1>1. PICK x : Taken(q, orig, n) = [q EXCEPT !.net = x]
    BY Zenon DEF Taken
  <1> QED BY <1>1, HasKept, Zenon

\* The copies of redundant mode carry no stamp.
LEMMA RedundantKeeps ==
    ASSUME NEW q, NEW flow, NEW wire, Has(q, flow, wire), NEW orig, NEW res
    PROVE  Has(tun_send_redundant(q, orig, res).q, flow, wire)
  <1>1. PICK n, x, t, y : /\ t = Taken(q, orig, n) /\ y = [t EXCEPT !.red = x]
                          /\ \/ tun_send_redundant(q, orig, res).q = y
                             \/ tun_send_redundant(q, orig, res).q = [y EXCEPT !.bp = TRUE]
    BY Zenon DEF tun_send_redundant
  <1>2. Has(t, flow, wire)
    BY <1>1, TakenKeeps, Zenon
  <1>3. Has(y, flow, wire)
    BY <1>1, <1>2, HasKept, Zenon
  <1> QED BY <1>1, <1>3, HasKept, Zenon

\* A datagram that is not taken uses no number up.
LEMMA SendOnceIs ==
    ASSUME NEW q, NEW flow, NEW wire, Has(q, flow, wire), NEW key, NEW stamp \in BOOLEAN,
           NEW orig, NEW answer \in {"ok", "eagain", "error"}
    PROVE  LET s == send_once(q, key, stamp, orig, answer)
           IN  \/ Has(s, flow, wire)
               \/ stamp /\ Has(s, AdvancedIn(flow, key), StampedOn(wire, flow, key))
  <1>1. PICK t : t = Taken(q, orig, 1)
    BY Zenon
  <1>2. Has(t, flow, wire)
    BY <1>1, TakenKeeps, Zenon
  <1>3. CASE answer = "ok"
    <2>1. send_once(q, key, stamp, orig, answer)
            = IF stamp THEN mqvpn_reorder_tx_commit(t, key) ELSE t
      BY <1>1, <1>3, Zenon DEF send_once
    <2>2. Has(mqvpn_reorder_tx_commit(t, key), AdvancedIn(flow, key), StampedOn(wire, flow, key))
      <3>1. PICK r, b, p, s, n : t = [flow |-> flow, red |-> r, bp |-> b, ptb |-> p,
                                      stat |-> s, net |-> n, wire |-> wire]
        BY <1>2, Zenon DEF Has
      <3>2. t.flow = flow /\ t.wire = wire
        BY <3>1, Zenon
      <3>3. mqvpn_reorder_tx_commit(t, key)
              = [t EXCEPT !.flow = AdvancedIn(flow, key),
                          !.wire = StampedOn(wire, flow, key)]
        BY <3>1, <3>2, Zenon DEF mqvpn_reorder_tx_commit, AdvancedIn, StampedOn, Advanced, StampOf
      <3>4. PICK g, v : g = AdvancedIn(flow, key) /\ v = StampedOn(wire, flow, key)
        BY Zenon
      <3>5. PICK y : y = [t EXCEPT !.flow = g]
        BY Zenon
      <3>6. y = [flow |-> g, red |-> r, bp |-> b, ptb |-> p, stat |-> s, net |-> n,
                 wire |-> wire]
        BY <3>1, <3>5, Zenon
      <3>7. [y EXCEPT !.wire = v]
              = [flow |-> g, red |-> r, bp |-> b, ptb |-> p, stat |-> s, net |-> n, wire |-> v]
        BY <3>6
      <3>8. mqvpn_reorder_tx_commit(t, key) = [y EXCEPT !.wire = v]
        BY <3>3, <3>4, <3>5, Zenon
      <3> QED BY <3>4, <3>7, <3>8, Zenon DEF Has
    <2> QED BY <1>2, <2>1, <2>2, Zenon
  <1>4. CASE answer = "eagain"
    <2>1. send_once(q, key, stamp, orig, answer)
            = IF on_client THEN [q EXCEPT !.bp = TRUE] ELSE q
      BY <1>4, Zenon DEF send_once
    <2>2. Has([q EXCEPT !.bp = TRUE], flow, wire)
      BY HasKept, Zenon
    <2> QED BY <2>1, <2>2, Zenon
  <1>5. CASE answer = "error"
    <2>1. send_once(q, key, stamp, orig, answer) = q
      BY <1>5, Zenon DEF send_once
    <2> QED BY <2>1, Zenon
  <1> QED BY <1>3, <1>4, <1>5, Zenon

\* Only a packet of an eligible flow in the table is stamped.
LEMMA StampsEligible ==
    ASSUME NEW flow, NEW pkt, NEW reorder \in BOOLEAN,
           mqvpn_rgate_decide(flow, pkt, reorder) = "STAMP"
    PROVE  pkt.key \in DOMAIN flow /\ flow[pkt.key].eligible
  <1>1. PICK act : act = IF reorder THEN mqvpn_reorder_tx_peek(flow, pkt) ELSE "RAW"
    BY Zenon
  <1>2. act \in {"RAW", "DROP_MTU", "STAMP"}
    BY <1>1, Zenon DEF mqvpn_reorder_tx_peek
  <1>3. act = "STAMP"
    BY <1>1, <1>2, Zenon DEF mqvpn_rgate_decide
  <1> QED BY <1>1, <1>3, Zenon DEF mqvpn_reorder_tx_peek

\* A handler leaves the table it looked the flow up in, or commits a stamp on it.
Leaves(q, flow, wire, key) ==
    \/ Has(q, flow, wire)
    \/ /\ key \in DOMAIN flow /\ flow[key].eligible
       /\ Has(q, AdvancedIn(flow, key), StampedOn(wire, flow, key))

\* The client's handler.
LEMMA LaneLeaves ==
    ASSUME NEW q, NEW flow, NEW wire, Has(q, flow, wire), NEW pkt, NEW res \in Answers,
           res[0] \in {"ok", "eagain", "error"}
    PROVE  Leaves(tun_decide_lane(q, pkt, res), flow, wire, pkt.key)
  <1> DEFINE redundant == mqvpn_redundant_match(pkt)
             v == mqvpn_rgate_decide(q.flow, pkt, reordered(pkt) /\ ~redundant)
             s == tun_send_redundant(q, Orig, res)
  <1>1. q.flow = flow
    BY HasFields, Zenon
  <1>2. Has(mqvpn_rgate_send_ptb(q), flow, wire)
    BY BucketKeeps, Zenon DEF mqvpn_rgate_send_ptb
  <1>3. Has(s.q, flow, wire)
    BY RedundantKeeps, Zenon
  <1>4. Leaves(send_once(s.q, pkt.key, FALSE, Orig, res[0]), flow, wire, pkt.key)
    <2>1. FALSE \in BOOLEAN
      BY Zenon
    <2> QED BY <1>3, <2>1, SendOnceIs, Zenon DEF Leaves
  <1>5. v = "STAMP" => pkt.key \in DOMAIN flow /\ flow[pkt.key].eligible
    BY <1>1, StampsEligible, Zenon
  <1>6. Leaves(send_once(q, pkt.key, v = "STAMP", Orig, res[0]), flow, wire, pkt.key)
    <2>1. PICK b \in BOOLEAN : b = (v = "STAMP")
      BY Zenon
    <2>2. Leaves(send_once(q, pkt.key, b, Orig, res[0]), flow, wire, pkt.key)
      BY <1>5, <2>1, SendOnceIs, Zenon DEF Leaves
    <2> QED BY <2>1, <2>2, Zenon
  <1> QED BY <1>2, <1>3, <1>4, <1>6, Zenon DEF tun_decide_lane, tun_send_datagram, Leaves

\* The server's handler.
LEMMA ForwardLeaves ==
    ASSUME NEW q, NEW flow, NEW wire, Has(q, flow, wire), NEW pkt, NEW res \in Answers,
           res[0] \in {"ok", "eagain", "error"}
    PROVE  Leaves(svr_forward(q, pkt, res), flow, wire, pkt.key)
  <1> DEFINE v == mqvpn_rgate_decide(q.flow, pkt, reordered(pkt))
  <1>1. q.flow = flow
    BY HasFields, Zenon
  <1>2. Has(mqvpn_ptb_bucket_allow(q), flow, wire)
    BY BucketKeeps, Zenon
  <1>3. v = "STAMP" => pkt.key \in DOMAIN flow /\ flow[pkt.key].eligible
    <2>1. reordered(pkt) \in BOOLEAN
      BY Zenon DEF reordered
    <2> QED BY <1>1, <2>1, StampsEligible, Zenon
  <1>4. Leaves(send_once(q, pkt.key, v = "STAMP", Orig, res[0]), flow, wire, pkt.key)
    <2>1. PICK b \in BOOLEAN : b = (v = "STAMP")
      BY Zenon
    <2>2. Leaves(send_once(q, pkt.key, b, Orig, res[0]), flow, wire, pkt.key)
      BY <1>3, <2>1, SendOnceIs, Zenon DEF Leaves
    <2> QED BY <2>1, <2>2, Zenon
  <1> QED BY <1>2, <1>4, Zenon DEF svr_forward, mqvpn_rgate_send_ptb, Leaves

\* A packet's handler commits its result.
LEMMA PacketStep ==
    ASSUME SlInv, NEW flow, FlowsGood(flow, sl_wire, sl_peak), NEW q, NEW key,
           Leaves(q, flow, sl_wire, key), SlCommit(q),
           UNCHANGED <<sl_case, sl_now, sl_peak>>
    PROVE  SlInv'
  <1>1. WireGood(sl_wire)
    BY Zenon DEF SlInv
  <1>2. WireGood(q.wire) /\ FlowsGood(q.flow, q.wire, sl_peak)
    <2>1. CASE Has(q, flow, sl_wire)
      <3>1. q.flow = flow /\ q.wire = sl_wire
        BY <2>1, HasFields, Zenon
      <3> QED BY <1>1, <3>1, Zenon
    <2>2. CASE /\ key \in DOMAIN flow /\ flow[key].eligible
               /\ Has(q, AdvancedIn(flow, key), StampedOn(sl_wire, flow, key))
      <3>1. q.flow = AdvancedIn(flow, key) /\ q.wire = StampedOn(sl_wire, flow, key)
        BY <2>2, HasFields, Zenon
      <3> QED BY <2>2, <3>1, CommitGood, Zenon
    <2> QED BY <2>1, <2>2, Zenon DEF Leaves
  <1>3. sl_flow' = q.flow /\ sl_wire' = q.wire
    BY Zenon DEF SlCommit
  <1>4. WireGood(sl_wire)' /\ FlowsGood(sl_flow, sl_wire, sl_peak)'
    BY <1>2, <1>3, Zenon DEF WireGood, FlowsGood, FlowGood
  <1> QED BY <1>4, Zenon DEF SlInv

\* The handler's state before the lookup's outcome.
LEMMA CurHas ==
    ASSUME NEW flow
    PROVE  Has([SlCur EXCEPT !.flow = flow], flow, sl_wire) /\ Has(SlCur, sl_flow, sl_wire)
  <1>1. Has(SlCur, sl_flow, sl_wire)
    BY Zenon DEF SlCur, Has
  <1>2. PICK r, b, p, s, n : SlCur = [flow |-> sl_flow, red |-> r, bp |-> b, ptb |-> p,
                                      stat |-> s, net |-> n, wire |-> sl_wire]
    BY <1>1, Zenon DEF Has
  <1>3. PICK y : y = [SlCur EXCEPT !.flow = flow]
    BY Zenon
  <1>4. y = [flow |-> flow, red |-> r, bp |-> b, ptb |-> p, stat |-> s, net |-> n,
             wire |-> sl_wire]
    BY <1>2, <1>3, Zenon
  <1>5. Has(y, flow, sl_wire)
    BY <1>4, Zenon DEF Has
  <1> QED BY <1>1, <1>3, <1>5, Zenon

\* xquic's answer on its own path.
LEMMA OwnAnswer ==
    ASSUME SlInv, NEW res \in Answers
    PROVE  res[0] \in {"ok", "eagain", "error"}
  <1>1. 0 \in 0..sl_case.paths
    BY SenderAssumption DEF SlInv
  <1> QED BY <1>1, Zenon DEF Answers

\* The client handles a packet.
LEMMA ClientPacketStep ==
    ASSUME SlInv, NEW pkt \in Packet, NEW res \in Answers, mqvpn_client_on_tun_packet(pkt, res)
    PROVE  SlInv'
  <1>1. PICK flow \in Looked(pkt) :
            SlCommit(IF tun_validate_src(pkt)
                     THEN tun_decide_lane([SlCur EXCEPT !.flow = flow], pkt, res) ELSE SlCur)
    BY Zenon DEF mqvpn_client_on_tun_packet
  <1>2. UNCHANGED <<sl_case, sl_now, sl_peak>>
    BY Zenon DEF mqvpn_client_on_tun_packet
  <1>3. FlowsGood(flow, sl_wire, sl_peak)
    BY LookedGood, Zenon
  <1>4. FlowsGood(sl_flow, sl_wire, sl_peak)
    BY Zenon DEF SlInv
  <1>5. Leaves(tun_decide_lane([SlCur EXCEPT !.flow = flow], pkt, res), flow, sl_wire, pkt.key)
    BY CurHas, OwnAnswer, LaneLeaves, Zenon
  <1>6. Leaves(SlCur, sl_flow, sl_wire, pkt.key)
    BY CurHas, Zenon DEF Leaves
  <1>7. CASE tun_validate_src(pkt)
    <2>1. SlCommit(tun_decide_lane([SlCur EXCEPT !.flow = flow], pkt, res))
      BY <1>1, <1>7, Zenon
    <2> QED BY <1>2, <1>3, <1>5, <2>1, PacketStep, Zenon
  <1>8. CASE ~tun_validate_src(pkt)
    <2>1. SlCommit(SlCur)
      BY <1>1, <1>8, Zenon
    <2> QED BY <1>2, <1>4, <1>6, <2>1, PacketStep, Zenon
  <1> QED BY <1>7, <1>8, Zenon

\* The server handles a packet.
LEMMA ServerPacketStep ==
    ASSUME SlInv, NEW pkt \in Packet, NEW res \in Answers, mqvpn_server_on_tun_packet(pkt, res)
    PROVE  SlInv'
  <1>1. PICK flow \in Looked(pkt) :
            SlCommit(IF pkt.kind = "stray" THEN mqvpn_ptb_bucket_allow(SlCur)
                     ELSE svr_forward([SlCur EXCEPT !.flow = flow], pkt, res))
    BY Zenon DEF mqvpn_server_on_tun_packet
  <1>2. UNCHANGED <<sl_case, sl_now, sl_peak>>
    BY Zenon DEF mqvpn_server_on_tun_packet
  <1>3. FlowsGood(flow, sl_wire, sl_peak)
    BY LookedGood, Zenon
  <1>4. FlowsGood(sl_flow, sl_wire, sl_peak)
    BY Zenon DEF SlInv
  <1>5. Leaves(svr_forward([SlCur EXCEPT !.flow = flow], pkt, res), flow, sl_wire, pkt.key)
    BY CurHas, OwnAnswer, ForwardLeaves, Zenon
  <1>6. Leaves(mqvpn_ptb_bucket_allow(SlCur), sl_flow, sl_wire, pkt.key)
    BY CurHas, BucketKeeps, Zenon DEF Leaves
  <1>7. CASE pkt.kind = "stray"
    <2>1. SlCommit(mqvpn_ptb_bucket_allow(SlCur))
      BY <1>1, <1>7, Zenon
    <2> QED BY <1>2, <1>4, <1>6, <2>1, PacketStep, Zenon
  <1>8. CASE pkt.kind # "stray"
    <2>1. SlCommit(svr_forward([SlCur EXCEPT !.flow = flow], pkt, res))
      BY <1>1, <1>8, Zenon
    <2> QED BY <1>2, <1>3, <1>5, <2>1, PacketStep, Zenon
  <1> QED BY <1>7, <1>8, Zenon

\* What touches neither the clock nor the stamps.
LEMMA OtherStep ==
    ASSUME SlInv, UNCHANGED <<sl_case, sl_now, sl_peak, sl_flow, sl_wire>>
    PROVE  SlInv'
  BY Zenon DEF SlInv, WireGood, FlowsGood, FlowGood

\* The clock may step back; the latest time it has shown does not.
LEMMA ClockStep ==
    ASSUME SlInv, NEW t, Clock(t)
    PROVE  SlInv'
  <1>1. sl_now \in Nat /\ sl_peak \in Nat /\ sl_now <= sl_peak
    BY Zenon DEF SlInv
  <1>2. /\ t \in {sl_now + 1, sl_now - 1} /\ t \in 0..sl_case.time
        /\ sl_now' = t /\ sl_peak' = IF t > sl_peak THEN t ELSE sl_peak
    BY Zenon DEF Clock
  <1>3. UNCHANGED <<sl_case, sl_flow, sl_wire>>
    BY Zenon DEF Clock
  <1>4. sl_now' \in Nat /\ sl_peak' \in Nat /\ sl_now' <= sl_peak' /\ sl_peak <= sl_peak'
    BY <1>1, <1>2
  <1>5. ASSUME NEW w \in Seq(Stamp), Restarts(w, sl_peak)
        PROVE  Restarts(w, sl_peak')
    <2>1. CASE w = <<>>
      BY <2>1, Zenon DEF Restarts
    <2>2. CASE w # <<>>
      <3>1. w[Len(w)] \in Stamp
        BY <2>2
      <3>2. w[Len(w)].at \in Nat
        BY <3>1, Zenon DEF Stamp
      <3>3. sl_peak - w[Len(w)].at > egress_idle_timeout
        BY <1>5, <2>2, Zenon DEF Restarts
      <3>4. sl_peak' - w[Len(w)].at > egress_idle_timeout
        BY <1>1, <1>4, <3>2, <3>3, SenderAssumption
      <3> QED BY <3>4, Zenon DEF Restarts
    <2> QED BY <2>1, <2>2, Zenon
  <1>6. ASSUME NEW k \in sl_case.keys
        PROVE  Follows(sl_flow, k, sl_wire[k], sl_peak')
    <2>1. sl_wire[k] \in Seq(Stamp)
      BY Zenon DEF SlInv, WireGood
    <2>2. Follows(sl_flow, k, sl_wire[k], sl_peak)
      BY Zenon DEF SlInv, FlowsGood
    <2> QED BY <1>5, <2>1, <2>2, Zenon DEF Follows
  <1>7. FlowsGood(sl_flow, sl_wire, sl_peak')
    BY <1>6, Zenon DEF SlInv, FlowsGood
  <1>8. FlowsGood(sl_flow, sl_wire, sl_peak)'
    BY <1>3, <1>7, Zenon DEF FlowsGood, FlowGood
  <1>9. WireGood(sl_wire)'
    BY <1>3, Zenon DEF SlInv, WireGood
  <1> QED BY <1>3, <1>4, <1>8, <1>9, Zenon DEF SlInv

\* The sender starts with an empty table and nothing on the wire.
LEMMA SlInitStep == SlInit => SlInv
  <1> SUFFICES ASSUME SlInit PROVE SlInv
    BY Zenon
  <1>1. sl_case \in SlCases /\ sl_now = 0 /\ sl_peak = 0 /\ sl_flow = <<>>
        /\ sl_wire = [k \in sl_case.keys |-> <<>>]
    BY Zenon DEF SlInit
  <1>2. <<>> \in Seq(Stamp) /\ InOrder(<<>>)
    BY DEF InOrder
  <1>3. WireGood(sl_wire)
    BY <1>1, <1>2, Zenon DEF WireGood
  <1>4. DOMAIN sl_flow = {} /\ sl_flow = [k \in DOMAIN sl_flow |-> sl_flow[k]]
    BY <1>1
  <1>5. FlowsGood(sl_flow, sl_wire, sl_peak)
    BY <1>1, <1>4, Zenon DEF FlowsGood, Follows, Restarts
  <1>6. sl_now \in Nat /\ sl_peak \in Nat /\ sl_now <= sl_peak
    BY <1>1
  <1> QED BY <1>1, <1>3, <1>5, <1>6, Zenon DEF SlInv

\* Every step keeps the invariant.
LEMMA SlNextStep ==
    ASSUME SlInv, [SlNext]_sl_vars
    PROVE  SlInv'
  <1>1. ASSUME NEW pkt \in Packet, NEW res \in Answers, mqvpn_client_on_tun_packet(pkt, res)
        PROVE  SlInv'
    BY <1>1, ClientPacketStep, Zenon
  <1>2. ASSUME NEW pkt \in Packet, NEW res \in Answers, mqvpn_server_on_tun_packet(pkt, res)
        PROVE  SlInv'
    BY <1>2, ServerPacketStep, Zenon
  <1>3. CASE cb_dgram_write
    BY <1>3, OtherStep, Zenon DEF cb_dgram_write
  <1>4. ASSUME NEW id \in DOMAIN sl_net, NEW acked \in BOOLEAN, cli_dgram_notify(id, acked)
        PROVE  SlInv'
    BY <1>4, OtherStep, Zenon DEF cli_dgram_notify
  <1>5. ASSUME NEW p \in Path, PathMoves(p)
        PROVE  SlInv'
    BY <1>5, OtherStep, Zenon DEF PathMoves
  <1>6. ASSUME NEW j \in Judgement, tick_redundant_refresh(j)
        PROVE  SlInv'
    BY <1>6, OtherStep, Zenon DEF tick_redundant_refresh
  <1>7. ASSUME NEW t, Clock(t)
        PROVE  SlInv'
    BY <1>7, ClockStep, Zenon
  <1>8. CASE UNCHANGED sl_vars
    BY <1>8, OtherStep, Zenon DEF sl_vars
  <1> QED BY <1>1, <1>2, <1>3, <1>4, <1>5, <1>6, <1>7, <1>8, Zenon DEF SlNext

\* The invariant says what the receiver relies on.
LEMMA SlInvStamped == SlInv => StampedInOrder
  <1> SUFFICES ASSUME SlInv PROVE StampedInOrder
    BY Zenon
  <1>1. DOMAIN sl_wire = sl_case.keys /\ \A k \in sl_case.keys : InOrder(sl_wire[k])
    BY Zenon DEF SlInv, WireGood
  <1> QED BY <1>1, Zenon DEF StampedInOrder, InOrder

\* The packets of a flow that xquic took are numbered without a gap, start
\* again from 0 only after more than the idle timeout, and carry RESET exactly
\* at the start of such a stretch (StampedInOrder): for any table size, any
\* number of flows, any timeout, and a clock that steps back.
THEOREM SenderStampsInOrder == SlSpec => []StampedInOrder
  BY SlInitStep, SlNextStep, SlInvStamped, PTL DEF SlSpec

-----------------------------------------------------------------------------
(* The network monitor.                                                    *)

\* A set of naturals that is not empty has a smallest element.
LEMMA LeastOf ==
    ASSUME NEW T \in SUBSET Nat, T # {}
    PROVE  \E x \in T : \A y \in T : x <= y
  <1>1. PICK x \in T : \A y \in T : ~(<<y, x>> \in OpToRel(<, Nat))
    BY NatLessThanWellFounded, WFMin, Zenon
  <1>2. \A y \in T : y < x => <<y, x>> \in OpToRel(<, Nat)
    BY Zenon DEF OpToRel
  <1>3. \A y \in T : ~(y < x)
    BY <1>1, <1>2, Zenon
  <1> QED BY <1>3

\* A slot that has its path, and one that has none.
OpenSlot == [fd : {TRUE}, ev : {TRUE}, held : {1}, lib : Live \cup {"recoverable"},
             recover_failures : {0}]
ShutSlot == [fd : {FALSE}, ev : {FALSE}, held : {0}, lib : {"closed", "unlisted"},
             recover_failures : 0..PATH_RECOVER_FAILURE_LIMIT]

\* The state a handler works on, with every slot either open or shut.
Sane == [slot : [Slots -> OpenSlot \cup ShutSlot], fatal : {FALSE}, ret : BOOLEAN]

\* What a handler may do to the sockets: it closes one for cause only, and
\* opens one on a usable interface only.
Moves(q, r) ==
    \A s \in Slots :
        LET i == nm_case.iface[s]
        IN  /\ q.slot[s].fd /\ ~r.slot[s].fd => Lost(i) \/ Reported(i)
            /\ ~q.slot[s].fd /\ r.slot[s].fd => Fit(i)

Dropped(x) == IF x.fd THEN [fd |-> FALSE, ev |-> FALSE, held |-> 0, lib |-> "closed",
                            recover_failures |-> 0]
                      ELSE x

\* A slot may fail, and zero failures are within the limit.
LEMMA LimitBounds == PATH_RECOVER_FAILURE_LIMIT \in Nat /\ 0 \in 0..PATH_RECOVER_FAILURE_LIMIT
  BY NetMonAssumption

\* What the fields of a slot are, from its socket.
LEMMA SlotFields ==
    ASSUME NEW x \in OpenSlot \cup ShutSlot
    PROVE  /\ x = [fd |-> x.fd, ev |-> x.ev, held |-> x.held, lib |-> x.lib,
                   recover_failures |-> x.recover_failures]
           /\ x.fd = TRUE => /\ x \in OpenSlot
                             /\ x.ev = TRUE /\ x.held = 1 /\ x.recover_failures = 0
                             /\ x.lib \in Live \cup {"recoverable"}
           /\ x.fd # TRUE => /\ x \in ShutSlot /\ x.fd = FALSE /\ x.ev = FALSE
                             /\ x.held = 0 /\ x.lib \in {"closed", "unlisted"}
                             /\ x.recover_failures \in 0..PATH_RECOVER_FAILURE_LIMIT
  <1>1. CASE x \in OpenSlot
    BY <1>1, Zenon DEF OpenSlot
  <1>2. CASE x \in ShutSlot
    BY <1>2, Zenon DEF ShutSlot
  <1> QED BY <1>1, <1>2, Zenon

\* A slot with one transport, dropped, closed and released, is shut.
LEMMA ReleasedIs ==
    ASSUME NEW x, x = [fd |-> x.fd, ev |-> x.ev, held |-> 1, lib |-> x.lib,
                       recover_failures |-> x.recover_failures]
    PROVE  /\ ~release_refused(platform_path_close_socket(mqvpn_client_drop_path(x)))
           /\ mqvpn_client_path_released(platform_path_close_socket(mqvpn_client_drop_path(x)))
                = [fd |-> FALSE, ev |-> FALSE, held |-> 0, lib |-> "closed",
                   recover_failures |-> x.recover_failures]
  <1> DEFINE R(a, b, h, m) == [fd |-> a, ev |-> b, held |-> h, lib |-> m,
                               recover_failures |-> x.recover_failures]
  <1>1. PICK y : y = mqvpn_client_drop_path(x)
    BY Zenon
  <1>2. y = R(x.fd, x.ev, 1, "closed")
    BY <1>1 DEF mqvpn_client_drop_path
  <1>3. PICK z : z = platform_path_disarm(y)
    BY Zenon
  <1>4. z = R(x.fd, FALSE, 1, "closed")
    BY <1>2, <1>3, Zenon DEF platform_path_disarm
  <1>5. PICK w : w = [z EXCEPT !.fd = FALSE]
    BY Zenon
  <1>6. w = R(FALSE, FALSE, 1, "closed")
    BY <1>4, <1>5, Zenon
  <1>7. platform_path_close_socket(mqvpn_client_drop_path(x)) = w
    BY <1>1, <1>3, <1>5, Zenon DEF platform_path_close_socket
  <1>8. ~release_refused(w) /\ mqvpn_client_path_released(w) = R(FALSE, FALSE, 0, "closed")
    <2>1. ~release_refused(w)
      BY <1>6 DEF release_refused
    <2>2. [w EXCEPT !.held = @ - 1] = R(FALSE, FALSE, 0, "closed")
      <3>1. w.held - 1 = 0
        BY <1>6
      <3>2. PICK v : v = [w EXCEPT !.held = 0]
        BY Zenon
      <3>3. v = R(FALSE, FALSE, 0, "closed")
        BY <1>6, <3>2, Zenon
      <3> QED BY <3>1, <3>2, <3>3, Zenon
    <2> QED BY <2>1, <2>2, Zenon DEF mqvpn_client_path_released
  <1> QED BY <1>7, <1>8, Zenon

\* Removing paths leaves the slots that had one shut, with their transport
\* released, and touches nothing else.
LEMMA RemoveIs ==
    ASSUME NEW q \in Sane, NEW S \in SUBSET Slots
    PROVE  remove_path_by_slot(q, S) =
              [slot |-> [s \in Slots |-> IF s \in S THEN Dropped(q.slot[s]) ELSE q.slot[s]],
               fatal |-> FALSE, ret |-> q.ret]
  <1> DEFINE T == {t \in S : q.slot[t].fd}
             x == [s \in T |-> mqvpn_client_drop_path(q.slot[s])]
             shut == [s \in T |-> platform_path_close_socket(x[s])]
             back == [s \in T |-> mqvpn_client_path_released(shut[s])]
  <1>0. q = [slot |-> q.slot, fatal |-> FALSE, ret |-> q.ret]
        /\ q.slot \in [Slots -> OpenSlot \cup ShutSlot]
    BY Zenon DEF Sane
  <1>1. \A s \in T : q.slot[s] \in OpenSlot
    BY <1>0, SlotFields, Zenon
  <1>2. \A s \in T : ~release_refused(shut[s]) /\ back[s] = Dropped(q.slot[s])
    <2> SUFFICES ASSUME NEW s \in T
                 PROVE  ~release_refused(shut[s]) /\ back[s] = Dropped(q.slot[s])
      BY Zenon
    <2>1. PICK l : q.slot[s] = [fd |-> TRUE, ev |-> TRUE, held |-> 1, lib |-> l,
                                recover_failures |-> 0]
      BY <1>1, Zenon DEF OpenSlot
    <2>2. shut[s] = platform_path_close_socket(mqvpn_client_drop_path(q.slot[s]))
      BY Zenon
    <2>3. back[s] = mqvpn_client_path_released(shut[s])
      BY Zenon
    <2>4. Dropped(q.slot[s]) = [fd |-> FALSE, ev |-> FALSE, held |-> 0, lib |-> "closed",
                                recover_failures |-> 0]
      BY <2>1, Zenon DEF Dropped
    <2>5. q.slot[s] = [fd |-> q.slot[s].fd, ev |-> q.slot[s].ev, held |-> 1,
                       lib |-> q.slot[s].lib, recover_failures |-> q.slot[s].recover_failures]
          /\ q.slot[s].recover_failures = 0
      BY <2>1
    <2> HIDE DEF shut, back
    <2> QED BY <2>2, <2>3, <2>4, <2>5, ReleasedIs, Zenon
  <1>3. DOMAIN x = T /\ T \in SUBSET Slots /\ DOMAIN back = T
    BY Zenon
  <1>4. remove_path_by_slot(q, S) = release_transport(q, x)
    BY Zenon DEF remove_path_by_slot
  <1>5. release_transport(q, x) = [slot |-> WithSlots(q, back).slot, ret |-> q.ret, fatal |-> FALSE]
    <2>1. \A s \in DOMAIN x : ~release_refused(shut[s])
      BY <1>2, <1>3, Zenon
    <2> HIDE DEF x, T
    <2>2. WithSlots(q, back).fatal = FALSE /\ WithSlots(q, back).ret = q.ret
      BY <1>0 DEF WithSlots
    <2> QED BY <1>3, <2>1, <2>2, Zenon DEF release_transport
  <1>6. WithSlots(q, back).slot = [s \in Slots |-> IF s \in T THEN back[s] ELSE q.slot[s]]
    <2> HIDE DEF back, T
    <2> QED BY <1>3, Zenon DEF WithSlots
  <1>7. ASSUME NEW s \in Slots
        PROVE  (IF s \in T THEN back[s] ELSE q.slot[s])
                  = IF s \in S THEN Dropped(q.slot[s]) ELSE q.slot[s]
    <2>1. CASE s \in T
      <3> HIDE DEF back
      <3> QED BY <2>1, <1>2, Zenon
    <2>2. CASE s \notin T
      BY <2>2, <1>0, SlotFields, Zenon DEF Dropped
    <2> QED BY <2>1, <2>2, Zenon
  <1> HIDE DEF back, T
  <1> QED BY <1>4, <1>5, <1>6, <1>7, Zenon

\* Removing paths keeps the table sound, and moves sockets for cause when the
\* interfaces are lost or reported.
LEMMA RemoveSane ==
    ASSUME NEW q \in Sane, NEW S \in SUBSET Slots,
           \A s \in S : Lost(nm_case.iface[s]) \/ Reported(nm_case.iface[s])
    PROVE  remove_path_by_slot(q, S) \in Sane /\ Moves(q, remove_path_by_slot(q, S))
  <1> DEFINE r == remove_path_by_slot(q, S)
             x == [s \in Slots |-> IF s \in S THEN Dropped(q.slot[s]) ELSE q.slot[s]]
  <1>0. q.ret \in BOOLEAN /\ q.slot \in [Slots -> OpenSlot \cup ShutSlot]
    BY Zenon DEF Sane
  <1>3. r = [slot |-> x, fatal |-> FALSE, ret |-> q.ret]
    BY RemoveIs, Zenon
  <1>1. \A s \in Slots : x[s] \in OpenSlot \cup ShutSlot
    <2> SUFFICES ASSUME NEW y \in OpenSlot \cup ShutSlot
                 PROVE  Dropped(y) \in OpenSlot \cup ShutSlot
      BY <1>0, Zenon
    <2>1. [fd |-> FALSE, ev |-> FALSE, held |-> 0, lib |-> "closed", recover_failures |-> 0]
             \in ShutSlot
      BY LimitBounds, Zenon DEF ShutSlot
    <2> QED BY <2>1, Zenon DEF Dropped
  <1>2. x \in [Slots -> OpenSlot \cup ShutSlot]
    BY <1>1, Zenon
  <1>4. ASSUME NEW s \in Slots
        PROVE  /\ q.slot[s].fd /\ ~x[s].fd => s \in S
               /\ ~q.slot[s].fd => ~x[s].fd
    BY Zenon DEF Dropped
  <1> HIDE DEF r, x
  <1>5. r \in Sane
    BY <1>0, <1>2, <1>3, Zenon DEF Sane
  <1>6. Moves(q, r)
    BY <1>3, <1>4, Zenon DEF Moves
  <1> QED BY <1>5, <1>6, Zenon DEF r

\* How a handler's state is shown to be sane.
LEMMA SaneIs ==
    ASSUME NEW y \in [Slots -> OpenSlot \cup ShutSlot], NEW b \in BOOLEAN
    PROVE  [slot |-> y, fatal |-> FALSE, ret |-> b] \in Sane
  BY Zenon DEF Sane

\* A handler that keeps every socket.
LEMMA MovesNothing ==
    ASSUME NEW q, NEW r, \A s \in Slots : r.slot[s].fd = q.slot[s].fd
    PROVE  Moves(q, r)
  <1>1. ASSUME NEW s \in Slots
        PROVE  ~(q.slot[s].fd /\ ~r.slot[s].fd) /\ ~(~q.slot[s].fd /\ r.slot[s].fd)
    BY Zenon
  <1> QED BY <1>1, Zenon DEF Moves

\* One handler after another.
LEMMA MovesOn ==
    ASSUME NEW q, NEW m, NEW r, Moves(q, m), Moves(m, r)
    PROVE  Moves(q, r)
  BY Zenon DEF Moves

\* Giving some slots values that are open or shut again.
LEMMA WithSlotsSane ==
    ASSUME NEW q \in Sane, NEW T \in SUBSET Slots, NEW x \in [T -> OpenSlot \cup ShutSlot]
    PROVE  /\ WithSlots(q, x) \in Sane
           /\ WithSlots(q, x).slot = [s \in Slots |-> IF s \in T THEN x[s] ELSE q.slot[s]]
  <1>1. q.fatal = FALSE /\ q.ret \in BOOLEAN /\ q.slot \in [Slots -> OpenSlot \cup ShutSlot]
    BY Zenon DEF Sane
  <1>2. DOMAIN x = T
    BY Zenon
  <1> DEFINE y == [s \in Slots |-> IF s \in T THEN x[s] ELSE q.slot[s]]
  <1>3. WithSlots(q, x) = [slot |-> y, fatal |-> FALSE, ret |-> q.ret]
    BY <1>1, <1>2, Zenon DEF WithSlots
  <1>4. y \in [Slots -> OpenSlot \cup ShutSlot]
    BY <1>1, Zenon
  <1> HIDE DEF y
  <1>5. WithSlots(q, x) \in Sane
    BY <1>1, <1>3, <1>4, SaneIs, Zenon
  <1> QED BY <1>3, <1>5 DEF y

\* Reactivation opens and closes no socket.
LEMMA ReactivateSane ==
    ASSUME NEW q \in Sane, NEW i, NEW f
    PROVE  /\ netmon_try_reactivate_by_ifname(q, i, f) \in Sane
           /\ Moves(q, netmon_try_reactivate_by_ifname(q, i, f))
  <1> DEFINE T == {s \in SlotsOn(i) : q.slot[s].fd /\ q.slot[s].lib \in {"degraded", "recoverable"}}
             x == [s \in T |-> mqvpn_client_reactivate_path(q.slot[s], f)]
             r == netmon_try_reactivate_by_ifname(q, i, f)
  <1>0. T \in SUBSET Slots /\ q.slot \in [Slots -> OpenSlot \cup ShutSlot]
    BY Zenon DEF SlotsOn, Sane
  <1>1. ASSUME NEW s \in T
        PROVE  x[s] \in OpenSlot /\ x[s].fd = TRUE /\ q.slot[s].fd = TRUE
    <2>1. PICK y : y = q.slot[s]
      BY Zenon
    <2>2. y \in OpenSlot
      BY <1>0, <2>1, SlotFields, Zenon
    <2>3. PICK z : z = [y EXCEPT !.lib = "pending"]
      BY Zenon
    <2>4. z \in OpenSlot
      BY <2>2, <2>3, Zenon DEF OpenSlot, Live
    <2>5. x[s] = y \/ x[s] = z
      <3>1. x[s] = mqvpn_client_reactivate_path(y, f)
        BY <2>1, Zenon
      <3> QED BY <2>3, <3>1, Zenon DEF mqvpn_client_reactivate_path
    <2>6. y.fd = TRUE /\ z.fd = TRUE
      BY <2>2, <2>4, Zenon DEF OpenSlot
    <2> QED BY <2>1, <2>2, <2>4, <2>5, <2>6, Zenon
  <1>2. r = q \/ r = WithSlots(q, x)
    <2> HIDE DEF x
    <2> QED BY Zenon DEF netmon_try_reactivate_by_ifname, x
  <1>3. x \in [T -> OpenSlot \cup ShutSlot]
    BY <1>1, Zenon
  <1>4. CASE r = q
    BY <1>4, Zenon DEF Moves
  <1>5. CASE r = WithSlots(q, x)
    <2> HIDE DEF r, x, T
    <2>1. r \in Sane /\ r.slot = [s \in Slots |-> IF s \in T THEN x[s] ELSE q.slot[s]]
      BY <1>0, <1>3, <1>5, WithSlotsSane
    <2>2. \A s \in Slots : r.slot[s].fd = q.slot[s].fd
      BY <1>1, <2>1, Zenon
    <2> QED BY <2>1, <2>2, MovesNothing, Zenon DEF r
  <1> QED BY <1>2, <1>4, <1>5, Zenon

\* What adding a path leaves before its read event is armed.
HalfOpen(n) == [fd |-> TRUE, ev |-> FALSE, held |-> 1, lib |-> "pending", recover_failures |-> n]

\* The value a handler returns.
IsFlag(b) == b \in BOOLEAN

\* A table with slot s half open and the slots of y else.
Half(q, s, y, n, b) ==
    q = [slot |-> [t \in Slots |-> IF t = s THEN HalfOpen(n) ELSE y[t]], fatal |-> FALSE, ret |-> b]

AddedTo(q, s, reuse) ==
    LET added == mqvpn_client_add_path(q, s, reuse)
    IN  WithSlots(added, [t \in {s} |-> slot_opened(added.slot[t])])

\* mqvpn_client_add_path and the socket: the slot is half open, and no other
\* slot's socket changes, the one whose library slot is reused included.
LEMMA AddIs ==
    ASSUME NEW q \in Sane, NEW s \in Slots, ~q.slot[s].fd, NEW reuse
    PROVE  \E y \in [Slots -> OpenSlot \cup ShutSlot] :
              /\ \A t \in Slots : y[t].fd = q.slot[t].fd
              /\ AddedTo(q, s, reuse) =
                   [slot |-> [t \in Slots |-> IF t = s THEN HalfOpen(q.slot[s].recover_failures)
                                                       ELSE y[t]],
                    fatal |-> FALSE, ret |-> q.ret]
  <1> DEFINE T == (Slots \cap {reuse}) \cup {s}
             x == [t \in T |-> IF t = s THEN path_taken(q.slot[t]) ELSE path_unlisted(q.slot[t])]
             y == [t \in Slots |-> IF t \in T /\ t # s THEN path_unlisted(q.slot[t]) ELSE q.slot[t]]
             added == mqvpn_client_add_path(q, s, reuse)
  <1>0. /\ q.fatal = FALSE /\ q.slot \in [Slots -> OpenSlot \cup ShutSlot]
        /\ T \in SUBSET Slots /\ DOMAIN x = T
    BY Zenon DEF Sane
  <1>1. ASSUME NEW z \in OpenSlot \cup ShutSlot
        PROVE  path_unlisted(z) \in OpenSlot \cup ShutSlot /\ path_unlisted(z).fd = z.fd
    <2>1. CASE z.lib = "closed" /\ z.held = 0
      <3>1. PICK w : w = [z EXCEPT !.lib = "unlisted"]
        BY Zenon
      <3>2. z \in ShutSlot
        <4>1. z.held # 1
          BY <2>1
        <4> QED BY <4>1, SlotFields, Zenon
      <3>3. w \in ShutSlot /\ w.fd = z.fd
        BY <3>1, <3>2, Zenon DEF ShutSlot
      <3>4. path_unlisted(z) = w
        BY <2>1, <3>1, Zenon DEF path_unlisted
      <3> QED BY <3>3, <3>4, Zenon
    <2>2. CASE ~(z.lib = "closed" /\ z.held = 0)
      BY <2>2, Zenon DEF path_unlisted
    <2> QED BY <2>1, <2>2, Zenon
  <1>2. y \in [Slots -> OpenSlot \cup ShutSlot] /\ \A t \in Slots : y[t].fd = q.slot[t].fd
    BY <1>0, <1>1, Zenon
  <1>3. added = [slot |-> [t \in Slots |-> IF t \in T THEN x[t] ELSE q.slot[t]],
                 fatal |-> FALSE, ret |-> q.ret]
    <2>1. added = WithSlots(q, x)
      BY Zenon DEF mqvpn_client_add_path
    <2> HIDE DEF x, added, T
    <2> QED BY <1>0, <2>1, Zenon DEF WithSlots
  <1>4. ASSUME NEW t \in Slots
        PROVE  added.slot[t] = IF t = s THEN path_taken(q.slot[s]) ELSE y[t]
    <2> HIDE DEF added
    <2> QED BY <1>3, Zenon
  <1>5. slot_opened(added.slot[s]) = HalfOpen(q.slot[s].recover_failures)
    <2>1. PICK z : z = q.slot[s]
      BY Zenon
    <2>2. z \in ShutSlot
      BY <1>0, <2>1, SlotFields, Zenon
    <2>3. PICK w : w = [z EXCEPT !.lib = "pending", !.held = 1]
      BY Zenon
    <2>4. w = [fd |-> FALSE, ev |-> FALSE, held |-> 1, lib |-> "pending",
               recover_failures |-> z.recover_failures]
      BY <2>2, <2>3, Zenon DEF ShutSlot
    <2>5. path_taken(z) = w
      <3>1. z.held + 1 = 1
        BY <2>2 DEF ShutSlot
      <3> QED BY <2>3, <3>1, Zenon DEF path_taken
    <2>6. PICK v : v = [w EXCEPT !.fd = TRUE]
      BY Zenon
    <2>7. v = HalfOpen(z.recover_failures)
      BY <2>4, <2>6, Zenon DEF HalfOpen
    <2>8. added.slot[s] = w
      <3> HIDE DEF added
      <3> QED BY <1>4, <2>1, <2>5, Zenon
    <2> HIDE DEF added
    <2> QED BY <2>1, <2>6, <2>7, <2>8, Zenon DEF slot_opened
  <1>6. AddedTo(q, s, reuse) =
           [slot |-> [t \in Slots |-> IF t = s THEN slot_opened(added.slot[s]) ELSE added.slot[t]],
            fatal |-> FALSE, ret |-> q.ret]
    <2>1. added.fatal = FALSE /\ added.ret = q.ret
      BY <1>3
    <2>2. AddedTo(q, s, reuse) = WithSlots(added, [t \in {s} |-> slot_opened(added.slot[t])])
      BY Zenon DEF AddedTo
    <2> HIDE DEF added
    <2> QED BY <2>1, <2>2, Zenon DEF WithSlots
  <1>7. \A t \in Slots : (IF t = s THEN slot_opened(added.slot[s]) ELSE added.slot[t])
                           = IF t = s THEN HalfOpen(q.slot[s].recover_failures) ELSE y[t]
    <2> HIDE DEF added, y
    <2> QED BY <1>4, <1>5, Zenon
  <1> HIDE DEF added, y
  <1> QED BY <1>2, <1>6, <1>7, Zenon

\* A failed registration gives the transport back and counts against the slot.
LEMMA RollbackIs ==
    ASSUME NEW y \in [Slots -> OpenSlot \cup ShutSlot], NEW s \in Slots, NEW b, IsFlag(b),
           NEW n \in 0..(PATH_RECOVER_FAILURE_LIMIT - 1), NEW f, NEW q,
           Half(q, s, y, n, b)
    PROVE  /\ recovery_rollback(q, s, f) \in Sane
           /\ \A t \in Slots : t # s => recovery_rollback(q, s, f).slot[t] = y[t]
  <1> DEFINE back == [fd |-> FALSE, ev |-> FALSE, held |-> 0, lib |-> "closed",
                      recover_failures |-> n]
             x == [t \in {s} |-> mqvpn_client_drop_path(q.slot[t])]
             r == release_transport(q, x)
             z == [t \in {s} |-> slot_failed(r.slot[t], f)]
  <1>0. q = [slot |-> [t \in Slots |-> IF t = s THEN HalfOpen(n) ELSE y[t]],
             fatal |-> FALSE, ret |-> b]
    BY Zenon DEF Half
  <1>1. q.slot[s] = HalfOpen(n) /\ q.fatal = FALSE /\ q.ret = b
    BY <1>0, Zenon
  <1>2. /\ ~release_refused(platform_path_close_socket(mqvpn_client_drop_path(q.slot[s])))
        /\ mqvpn_client_path_released(platform_path_close_socket(mqvpn_client_drop_path(q.slot[s])))
             = back
    <2>1. HalfOpen(n) = [fd |-> HalfOpen(n).fd, ev |-> HalfOpen(n).ev, held |-> 1,
                         lib |-> HalfOpen(n).lib, recover_failures |-> HalfOpen(n).recover_failures]
          /\ HalfOpen(n).recover_failures = n
      BY Zenon DEF HalfOpen
    <2> QED BY <1>1, <2>1, ReleasedIs, Zenon
  <1>3. r = [slot |-> [t \in Slots |-> IF t = s THEN back ELSE q.slot[t]],
             ret |-> b, fatal |-> FALSE]
    <2> DEFINE shut == [t \in {s} |-> platform_path_close_socket(x[t])]
               w == [t \in {s} |-> mqvpn_client_path_released(shut[t])]
    <2>1. DOMAIN x = {s} /\ shut[s] = platform_path_close_socket(mqvpn_client_drop_path(q.slot[s]))
          /\ DOMAIN w = {s} /\ w[s] = mqvpn_client_path_released(shut[s])
      BY Zenon
    <2>2. w[s] = back /\ ~release_refused(shut[s])
      <3> HIDE DEF w, shut, back
      <3> QED BY <1>2, <2>1, Zenon
    <2>3. WithSlots(q, w) = [slot |-> [t \in Slots |-> IF t = s THEN back ELSE q.slot[t]],
                             ret |-> b, fatal |-> FALSE]
      <3> HIDE DEF w, back
      <3> QED BY <1>1, <2>1, <2>2, Zenon DEF WithSlots
    <2>4. WithSlots(q, w).fatal = FALSE /\ WithSlots(q, w).ret = b
          /\ WithSlots(q, w).slot = [t \in Slots |-> IF t = s THEN back ELSE q.slot[t]]
      <3> HIDE DEF w, back
      <3> QED BY <2>3
    <2>5. \A t \in {s} : ~release_refused(shut[t])
      <3> HIDE DEF shut
      <3> QED BY <2>2, Zenon
    <2> HIDE DEF x, back
    <2> QED BY <2>1, <2>4, <2>5, Zenon DEF release_transport
  <1>4. recovery_rollback(q, s, f) = WithSlots(r, z)
    BY Zenon DEF recovery_rollback
  <1>5. z[s] \in ShutSlot
    <2>1. z[s] = slot_failed(back, f)
      <3> HIDE DEF r, back
      <3> QED BY <1>3, Zenon
    <2>2. PICK v : v = back
      BY Zenon
    <2>3. PICK m : m = IF f = "permanent" THEN PATH_RECOVER_FAILURE_LIMIT ELSE n + 1
      BY Zenon
    <2>4. m \in 0..PATH_RECOVER_FAILURE_LIMIT /\ v.recover_failures = n
      BY <2>2, <2>3, LimitBounds
    <2>5. PICK u : u = [v EXCEPT !.recover_failures = m]
      BY Zenon
    <2>6. u \in ShutSlot
      BY <2>2, <2>4, <2>5, Zenon DEF ShutSlot
    <2>7. slot_failed(v, f) = u
      BY <2>3, <2>4, <2>5, Zenon DEF slot_failed
    <2> HIDE DEF z
    <2> QED BY <2>1, <2>2, <2>6, <2>7, Zenon
  <1>6. WithSlots(r, z) = [slot |-> [t \in Slots |-> IF t = s THEN z[s] ELSE y[t]],
                           fatal |-> FALSE, ret |-> b]
    <2>1. DOMAIN z = {s}
      BY Zenon
    <2>2. r.fatal = FALSE /\ r.ret = b /\ \A t \in Slots : t # s => r.slot[t] = y[t]
      <3> HIDE DEF r
      <3> QED BY <1>0, <1>3, Zenon
    <2> HIDE DEF z, r
    <2> QED BY <2>1, <2>2, Zenon DEF WithSlots
  <1> DEFINE v == [t \in Slots |-> IF t = s THEN z[s] ELSE y[t]]
  <1>7. v \in [Slots -> OpenSlot \cup ShutSlot]
    <2> HIDE DEF z
    <2> QED BY <1>5, Zenon
  <1>8. \A t \in Slots : t # s => v[t] = y[t]
    BY Zenon
  <1>9. recovery_rollback(q, s, f) = [slot |-> v, fatal |-> FALSE, ret |-> b]
    BY <1>4, <1>6, Zenon
  <1> HIDE DEF v
  <1>10. recovery_rollback(q, s, f) \in Sane
    BY <1>7, <1>9, SaneIs, Zenon DEF IsFlag
  <1>11. PICK u : u = recovery_rollback(q, s, f)
    BY Zenon
  <1>12. \A t \in Slots : t # s => u.slot[t] = y[t]
    <2>1. u.slot = v
      BY <1>9, <1>11
    <2> QED BY <1>8, <2>1, Zenon
  <1> QED BY <1>10, <1>11, <1>12, Zenon

\* Re-adding a path to a shut slot that has failures to spare, on an interface
\* that is up and has an address.
LEMMA ReaddSane ==
    ASSUME NEW q \in Sane, NEW s \in Slots, ~q.slot[s].fd,
           q.slot[s].recover_failures < PATH_RECOVER_FAILURE_LIMIT,
           Fit(nm_case.iface[s]), NEW f, NEW reuse
    PROVE  readd_slot(q, s, f, reuse) \in Sane /\ Moves(q, readd_slot(q, s, f, reuse))
  <1>0. q.ret \in BOOLEAN /\ q.slot \in [Slots -> OpenSlot \cup ShutSlot]
    BY Zenon DEF Sane
  <1>1. PICK y \in [Slots -> OpenSlot \cup ShutSlot] :
           /\ \A t \in Slots : y[t].fd = q.slot[t].fd
           /\ AddedTo(q, s, reuse) =
                 [slot |-> [t \in Slots |-> IF t = s THEN HalfOpen(q.slot[s].recover_failures)
                                                     ELSE y[t]],
                  fatal |-> FALSE, ret |-> q.ret]
    BY AddIs
  <1>2. PICK n \in 0..(PATH_RECOVER_FAILURE_LIMIT - 1) : n = q.slot[s].recover_failures
    <2>1. q.slot[s].recover_failures \in 0..PATH_RECOVER_FAILURE_LIMIT
      BY <1>0, SlotFields, Zenon
    <2> QED BY <2>1, LimitBounds
  <1> DEFINE opened == AddedTo(q, s, reuse)
             armed == WithSlots(opened, [t \in {s} |-> slot_armed(opened.slot[t])])
             r == readd_slot(q, s, f, reuse)
  <1>3. \/ r = q
        \/ r = recovery_rollback(opened, s, f)
        \/ r = [slot |-> armed.slot, fatal |-> armed.fatal, ret |-> TRUE]
    BY Zenon DEF readd_slot, AddedTo
  <1>4. ASSUME NEW z, z \in Sane,
               \A t \in Slots : t # s => z.slot[t].fd = q.slot[t].fd
        PROVE  Moves(q, z)
    BY <1>4, Zenon DEF Moves
  <1>5. CASE r = q
    BY <1>5, Zenon DEF Moves
  <1>6. CASE r = recovery_rollback(opened, s, f)
    <2> HIDE DEF opened, r
    <2>0. Half(opened, s, y, n, q.ret)
      BY <1>1, <1>2, Zenon DEF opened, Half
    <2>1. r \in Sane /\ \A t \in Slots : t # s => r.slot[t] = y[t]
      <3>1. IsFlag(q.ret)
        BY <1>0, Zenon DEF IsFlag
      <3>2. /\ recovery_rollback(opened, s, f) \in Sane
            /\ \A t \in Slots : t # s => recovery_rollback(opened, s, f).slot[t] = y[t]
        BY <2>0, <3>1, RollbackIs
      <3> QED BY <1>6, <3>2, Zenon
    <2>2. \A t \in Slots : t # s => r.slot[t].fd = q.slot[t].fd
      BY <1>1, <2>1, Zenon
    <2> QED BY <2>1, <2>2, <1>4, Zenon DEF r
  <1>7. CASE r = [slot |-> armed.slot, fatal |-> armed.fatal, ret |-> TRUE]
    <2>1. PICK x : x = HalfOpen(n)
      BY Zenon
    <2>2. PICK w : w = [x EXCEPT !.ev = TRUE, !.recover_failures = 0]
      BY Zenon
    <2>3. w \in OpenSlot
      BY <2>1, <2>2, Zenon DEF OpenSlot, HalfOpen, Live
    <2>4. opened.slot[s] = x /\ opened.fatal = FALSE /\ opened.ret = q.ret
          /\ \A t \in Slots : t # s => opened.slot[t] = y[t]
      <3> HIDE DEF opened
      <3> QED BY <1>1, <1>2, <2>1 DEF opened
    <2>5. slot_armed(opened.slot[s]) = w
      BY <2>2, <2>4, Zenon DEF slot_armed
    <2> DEFINE v == [t \in Slots |-> IF t = s THEN w ELSE y[t]]
    <2>6. armed = [slot |-> v, fatal |-> FALSE, ret |-> q.ret]
      <3> HIDE DEF opened
      <3> QED BY <2>4, <2>5, Zenon DEF WithSlots
    <2>7. v \in [Slots -> OpenSlot \cup ShutSlot]
      BY <2>3, Zenon
    <2>8. \A t \in Slots : t # s => v[t].fd = q.slot[t].fd
      BY <1>1, Zenon
    <2> HIDE DEF v, armed, r
    <2>9. r = [slot |-> v, fatal |-> FALSE, ret |-> TRUE]
      BY <1>7, <2>6, Zenon
    <2>10. r \in Sane
      BY <2>7, <2>9, SaneIs, Zenon
    <2>11. \A t \in Slots : t # s => r.slot[t].fd = q.slot[t].fd
      BY <2>8, <2>9, Zenon
    <2> QED BY <2>10, <2>11, <1>4, Zenon DEF r
  <1> QED BY <1>3, <1>5, <1>6, <1>7, Zenon

\* The slots of a configuration are numbered from one.
LEMMA SlotsAre ==
    ASSUME nm_case \in NmCases
    PROVE  Len(nm_case.iface) \in Nat /\ Slots = 1..Len(nm_case.iface)
  BY NetMonAssumption DEF Slots

\* The first of some slots.
LEMMA FirstOf ==
    ASSUME nm_case \in NmCases, NEW c \in SUBSET Slots, c # {}
    PROVE  (CHOOSE s \in c : \A t \in c : s <= t) \in c
  <1>1. c \in SUBSET Nat
    BY SlotsAre
  <1>2. \E s \in c : \A t \in c : s <= t
    BY <1>1, LeastOf, Zenon
  <1> QED BY <1>2, Zenon

\* Only a slot without a socket and with failures to spare is a candidate.
LEMMA CandidateIs ==
    ASSUME NEW x, NEW lib, path_readd_candidate(x, lib)
    PROVE  ~x.fd /\ x.recover_failures < PATH_RECOVER_FAILURE_LIMIT
  BY Zenon DEF path_readd_candidate

\* Re-adding the first candidate of an interface.
LEMMA TryReaddSane ==
    ASSUME nm_case \in NmCases, NEW q \in Sane, NEW i, NEW f, NEW reuse
    PROVE  /\ netmon_try_readd_removed_path(q, i, f, reuse) \in Sane
           /\ Moves(q, netmon_try_readd_removed_path(q, i, f, reuse))
           /\ try_readd_removed_path(q, i, f, reuse) \in Sane
           /\ Moves(q, try_readd_removed_path(q, i, f, reuse))
  <1> DEFINE no == [slot |-> q.slot, fatal |-> q.fatal, ret |-> FALSE]
             c == {s \in SlotsOn(i) : path_readd_candidate(q.slot[s], q.slot[s].lib)}
             s1 == CHOOSE s \in c : \A t \in c : s <= t
             a == netmon_try_readd_removed_path(q, i, f, reuse)
             b == try_readd_removed_path(q, i, f, reuse)
  <1>1. no \in Sane /\ no.slot = q.slot
    <2>1. q.fatal = FALSE /\ q.slot \in [Slots -> OpenSlot \cup ShutSlot]
      BY Zenon DEF Sane
    <2>2. no = [slot |-> q.slot, fatal |-> FALSE, ret |-> FALSE]
      BY <2>1, Zenon
    <2> HIDE DEF no
    <2> QED BY <2>1, <2>2, SaneIs, Zenon
  <1>2. \/ a = no
        \/ /\ a = readd_slot(no, s1, f, reuse) /\ c # {}
           /\ netmon_iface_is_up_and_running(i, f) = 1 /\ netmon_iface_has_usable_ip(i, f) = 1
    BY Zenon DEF netmon_try_readd_removed_path
  <1>3. \/ b = no
        \/ /\ b = readd_slot(no, s1, f, reuse) /\ c # {}
           /\ iface_is_up_and_running(i, f) = 1 /\ iface_has_usable_ip(i, f) = 1
    BY Zenon DEF try_readd_removed_path, win_readd_slot
  <1>4. /\ netmon_iface_is_up_and_running(i, f) = 1 /\ netmon_iface_has_usable_ip(i, f) = 1
             => Fit(i)
        /\ iface_is_up_and_running(i, f) = 1 /\ iface_has_usable_ip(i, f) = 1 => Fit(i)
    BY DEF netmon_iface_is_up_and_running, netmon_iface_has_usable_ip,
           iface_is_up_and_running, iface_has_usable_ip, Fit, running
  <1>5. ASSUME c # {}, Fit(i)
        PROVE  readd_slot(no, s1, f, reuse) \in Sane /\ Moves(q, readd_slot(no, s1, f, reuse))
    <2>1. c \in SUBSET Slots
      BY Zenon DEF SlotsOn
    <2>2. s1 \in c
      <3> HIDE DEF c
      <3> QED BY <1>5, <2>1, FirstOf, Zenon
    <2> HIDE DEF s1
    <2>3. /\ s1 \in Slots /\ nm_case.iface[s1] = i /\ ~no.slot[s1].fd
          /\ no.slot[s1].recover_failures < PATH_RECOVER_FAILURE_LIMIT
      BY <1>1, <2>2, CandidateIs, Zenon DEF SlotsOn
    <2> HIDE DEF no
    <2>4. /\ readd_slot(no, s1, f, reuse) \in Sane
          /\ Moves(no, readd_slot(no, s1, f, reuse))
      BY <1>1, <1>5, <2>3, ReaddSane, Zenon
    <2> QED BY <1>1, <2>4, Zenon DEF Moves
  <1>6. Moves(q, no)
    <2> HIDE DEF no
    <2> QED BY <1>1, MovesNothing, Zenon
  <1> HIDE DEF no, c, s1, a, b
  <1>7. a \in Sane /\ Moves(q, a)
    BY <1>1, <1>2, <1>4, <1>5, <1>6, Zenon
  <1>8. b \in Sane /\ Moves(q, b)
    BY <1>1, <1>3, <1>4, <1>5, <1>6, Zenon
  <1> QED BY <1>7, <1>8, Zenon DEF a, b

\* Dropping every path of an interface that is lost or reported.
LEMMA DropSane ==
    ASSUME NEW q \in Sane, NEW i, Lost(i) \/ Reported(i)
    PROVE  /\ netmon_drop_paths_by_ifname(q, i) \in Sane
           /\ Moves(q, netmon_drop_paths_by_ifname(q, i))
  <1>1. /\ SlotsOn(i) \in SUBSET Slots
        /\ \A s \in SlotsOn(i) : Lost(nm_case.iface[s]) \/ Reported(nm_case.iface[s])
    BY Zenon DEF SlotsOn
  <1> QED BY <1>1, RemoveSane, Zenon DEF netmon_drop_paths_by_ifname

\* One slot of the timer's scan.
LEMMA ScanSlotSane ==
    ASSUME nm_case \in NmCases, NEW q \in Sane, NEW s \in Slots, NEW lib, NEW f, NEW reuse
    PROVE  scan_slot(q, s, lib, f, reuse) \in Sane /\ Moves(q, scan_slot(q, s, lib, f, reuse))
  <1> DEFINE i == nm_case.iface[s]
             r == scan_slot(q, s, lib, f, reuse)
  <1>1. \/ r = q
        \/ r = netmon_try_reactivate_by_ifname(q, i, f)
        \/ r = netmon_try_readd_removed_path(q, i, f, reuse)
        \/ r = try_readd_removed_path(q, i, f, reuse)
        \/ /\ r = netmon_drop_paths_by_ifname(q, i) /\ Windows
           /\ iface_is_up_and_running(i, f) = 0 \/ iface_has_usable_ip(i, f) = 0
    BY Zenon DEF scan_slot, recover_slot, reconcile_slot, drop_paths_by_ifname,
                 try_reactivate_by_ifname
  <1>2. Windows /\ (iface_is_up_and_running(i, f) = 0 \/ iface_has_usable_ip(i, f) = 0) => Lost(i)
    BY DEF iface_is_up_and_running, iface_has_usable_ip, netmon_iface_has_usable_ip, Lost
  <1>3. Moves(q, q)
    BY MovesNothing, Zenon
  <1> HIDE DEF i, r
  <1>4. r \in Sane /\ Moves(q, r)
    BY <1>1, <1>2, <1>3, ReactivateSane, TryReaddSane, DropSane, Zenon
  <1> QED BY <1>4, Zenon DEF r

\* The timer's scan of all the slots, one after the other.
LEMMA ScanSane ==
    ASSUME nm_case \in NmCases, NEW q \in Sane, NEW f, NEW reuse
    PROVE  scan_slots(q, f, reuse) \in Sane /\ Moves(q, scan_slots(q, f, reuse))
  <1> DEFINE N == Len(nm_case.iface)
             Step(x, n) == scan_slot(x, n, q.slot[n].lib, f, reuse)
             Runs(h, m) == h = [n \in 0..m |-> IF n = 0 THEN q ELSE Step(h[n - 1], n)]
  <1>0. N \in Nat /\ Slots = 1..N
    BY SlotsAre, Zenon
  <1> HIDE DEF N, Step
  <1>1. \E h : Runs(h, N)
    <2> DEFINE T == {m \in 0..N : ~\E h : Runs(h, m)}
    <2>1. SUFFICES ASSUME T # {} PROVE FALSE
      BY <1>0
    <2>2. T \in SUBSET Nat
      BY <1>0
    <2>3. PICK m \in T : \A k \in T : m <= k
      <3> HIDE DEF T
      <3> QED BY <2>1, <2>2, LeastOf, Zenon
    <2>4. Runs([n \in 0..0 |-> q], 0)
      OBVIOUS
    <2>5. m \in 1..N
      <3>1. ~\E h : Runs(h, m)
        BY Zenon
      <3>2. m # 0
        <4> HIDE DEF Runs
        <4> QED BY <2>4, <3>1, Zenon
      <3> QED BY <3>2, <1>0
    <2>6. PICK h : Runs(h, m - 1)
      BY <2>3, <2>5, <1>0
    <2> DEFINE g == [n \in 0..m |-> IF n < m THEN h[n] ELSE Step(h[m - 1], m)]
    <2>7. \A n \in 0..m : g[n] = IF n = 0 THEN q ELSE Step(g[n - 1], n)
      BY <2>5, <2>6, <1>0
    <2>8. Runs(g, m)
      BY <2>7, <1>0, <2>5, Zenon
    <2> QED BY <2>8, Zenon
  <1>2. PICK h : Runs(h, N) /\ scan_slots(q, f, reuse) = h[N]
    BY <1>1, Zenon DEF scan_slots, Step, N
  <1>3. ASSUME NEW n \in 0..N
        PROVE  h[n] \in Sane /\ Moves(q, h[n])
    <2> DEFINE T == {m \in 0..N : ~(h[m] \in Sane /\ Moves(q, h[m]))}
    <2>1. SUFFICES ASSUME T # {} PROVE FALSE
      BY Zenon
    <2>2. T \in SUBSET Nat
      BY <1>0
    <2>3. PICK m \in T : \A k \in T : m <= k
      <3> HIDE DEF T
      <3> QED BY <2>1, <2>2, LeastOf, Zenon
    <2>4. h[0] = q
      BY <1>0, <1>2
    <2>5. Moves(q, q)
      BY MovesNothing, Zenon
    <2>6. m \in 1..N
      BY <1>0, <2>4, <2>5
    <2>7. h[m - 1] \in Sane /\ Moves(q, h[m - 1])
      BY <1>0, <2>3, <2>6
    <2>8. h[m] = Step(h[m - 1], m)
      BY <1>0, <1>2, <2>6
    <2>9. h[m] \in Sane /\ Moves(h[m - 1], h[m])
      BY <1>0, <2>6, <2>7, <2>8, ScanSlotSane, Zenon DEF Step
    <2> QED BY <2>3, <2>7, <2>9, MovesOn, Zenon
  <1> QED BY <1>0, <1>2, <1>3

\* Every handler of a message works on a sane table and leaves one, and moves
\* sockets for cause.
LEMMA EventSane ==
    ASSUME nm_case \in NmCases, NEW q \in Sane, NEW f, NEW reuse,
           nm_msgs # <<>>, Head(nm_msgs) \in Message
    PROVE  LET r == IF Linux THEN on_netlink_event(q, Head(nm_msgs), f, reuse)
                             ELSE on_route_event(q, Head(nm_msgs), f, reuse)
           IN  r \in Sane /\ Moves(q, r)
  <1>1. PICK m \in Message : m = Head(nm_msgs)
    BY Zenon
  <1> DEFINE Fine(r) == r \in Sane /\ Moves(q, r)
             gone == {s \in Slots : nm_if[nm_case.iface[s]].link = "gone"}
  <1>2. Fine(q)
    BY MovesNothing, Zenon
  <1>3. Fine(handle_rtm_newaddr(q, m, f, reuse))
    <2> DEFINE r == netmon_try_readd_removed_path(q, m.i, f, reuse)
    <2>1. r \in Sane /\ Moves(q, r)
      BY TryReaddSane, Zenon
    <2> HIDE DEF r
    <2>2. /\ netmon_try_reactivate_by_ifname(r, m.i, f) \in Sane
          /\ Moves(r, netmon_try_reactivate_by_ifname(r, m.i, f))
      BY <2>1, ReactivateSane, Zenon
    <2>3. \/ handle_rtm_newaddr(q, m, f, reuse) = r
          \/ handle_rtm_newaddr(q, m, f, reuse) = netmon_try_reactivate_by_ifname(r, m.i, f)
      BY Zenon DEF handle_rtm_newaddr, r
    <2>4. Moves(q, netmon_try_reactivate_by_ifname(r, m.i, f))
      BY <2>1, <2>2, MovesOn, Zenon
    <2> QED BY <2>1, <2>2, <2>3, <2>4, Zenon
  <1>4. ASSUME m.type = "newlink", m.link = "down" \/ (Linux /\ m.link = "nocarrier")
        PROVE  Fine(netmon_drop_paths_by_ifname(q, m.i))
    <2>1. Reported(m.i)
      BY <1>1, <1>4, Zenon DEF Reported
    <2> QED BY <2>1, DropSane, Zenon
  <1>5. Linux /\ m.type = "dellink" => Fine(netmon_drop_paths_by_ifname(q, m.i))
    <2>1. Linux /\ m.type = "dellink" => Reported(m.i)
      BY <1>1, Zenon DEF Reported
    <2> QED BY <2>1, DropSane, Zenon
  <1>6. Fine(netmon_on_addr_removed(q, m.i, f))
    <2>1. netmon_iface_has_usable_ip(m.i, f) = 0 => Lost(m.i)
      BY DEF netmon_iface_has_usable_ip, Lost
    <2>2. \/ netmon_on_addr_removed(q, m.i, f) = q
          \/ /\ netmon_on_addr_removed(q, m.i, f) = netmon_drop_paths_by_ifname(q, m.i)
             /\ netmon_iface_has_usable_ip(m.i, f) = 0
      BY Zenon DEF netmon_on_addr_removed
    <2> QED BY <1>2, <2>1, <2>2, DropSane, Zenon
  <1>7. Fine(route_resolve_ifname(q))
    <2>1. gone \in SUBSET Slots /\ \A s \in gone : Lost(nm_case.iface[s])
      BY Zenon DEF Lost
    <2>2. route_resolve_ifname(q) = remove_path_by_slot(q, gone)
      BY Zenon DEF route_resolve_ifname
    <2> HIDE DEF gone
    <2> QED BY <2>1, <2>2, RemoveSane, Zenon
  <1>8. Linux /\ m.type = "newlink" => Fine(handle_rtm_newlink(q, m, f, reuse))
    <2>1. \/ handle_rtm_newlink(q, m, f, reuse) = q
          \/ handle_rtm_newlink(q, m, f, reuse) = handle_rtm_newaddr(q, m, f, reuse)
          \/ /\ handle_rtm_newlink(q, m, f, reuse) = netmon_drop_paths_by_ifname(q, m.i)
             /\ m.link = "down" \/ m.link = "nocarrier"
      BY Zenon DEF handle_rtm_newlink, is_carrier_loss
    <2> HIDE DEF Fine
    <2> QED BY <1>2, <1>3, <1>4, <2>1, Zenon
  <1>9. m.type = "newlink" => Fine(handle_rtm_ifinfo(q, m, f, reuse))
    <2>1. \/ handle_rtm_ifinfo(q, m, f, reuse) = q
          \/ handle_rtm_ifinfo(q, m, f, reuse) = handle_rtm_newaddr(q, m, f, reuse)
          \/ /\ handle_rtm_ifinfo(q, m, f, reuse) = netmon_drop_paths_by_ifname(q, m.i)
             /\ m.link = "down" \/ iface_carrier_down(m.i, f) = 1
      BY Zenon DEF handle_rtm_ifinfo
    <2>2. iface_carrier_down(m.i, f) = 1 => Lost(m.i)
      BY DEF iface_carrier_down, Lost
    <2>3. iface_carrier_down(m.i, f) = 1 => Fine(netmon_drop_paths_by_ifname(q, m.i))
      BY <2>2, DropSane, Zenon
    <2> HIDE DEF Fine
    <2> QED BY <1>2, <1>3, <1>4, <2>1, <2>3, Zenon
  <1>10. m.type \in {"newlink", "dellink", "newaddr", "deladdr"}
    BY Zenon DEF Message
  <1> HIDE DEF Fine
  <1>11. ASSUME Linux PROVE Fine(on_netlink_event(q, m, f, reuse))
    <2>1. CASE m.type = "newaddr"
      BY <2>1, <1>3, Zenon DEF on_netlink_event
    <2>2. CASE m.type = "deladdr"
      BY <2>2, <1>6, Zenon DEF on_netlink_event
    <2>3. CASE m.type = "dellink"
      BY <2>3, <1>5, <1>11, Zenon DEF on_netlink_event, handle_rtm_dellink
    <2>4. CASE m.type = "newlink"
      BY <2>4, <1>8, <1>11, Zenon DEF on_netlink_event
    <2> QED BY <1>10, <2>1, <2>2, <2>3, <2>4, Zenon
  <1>12. Fine(on_route_event(q, m, f, reuse))
    <2>1. CASE m.type = "dellink" \/ (f = "name" /\ nm_if[m.i].link = "gone")
      BY <2>1, <1>7, Zenon DEF on_route_event
    <2> SUFFICES ASSUME ~(m.type = "dellink" \/ (f = "name" /\ nm_if[m.i].link = "gone"))
                 PROVE  Fine(on_route_event(q, m, f, reuse))
      BY <2>1, Zenon
    <2>2. CASE m.type = "newaddr"
      BY <2>2, <1>3, Zenon DEF on_route_event
    <2>3. CASE m.type = "deladdr"
      BY <2>3, <1>6, Zenon DEF on_route_event
    <2>4. CASE m.type = "newlink"
      BY <2>4, <1>9, Zenon DEF on_route_event
    <2> QED BY <1>10, <2>2, <2>3, <2>4, Zenon
  <1> QED BY <1>1, <1>11, <1>12, Zenon DEF Fine

\* Darwin's resync drops the paths of lost interfaces only.
LEMMA ResyncSane ==
    ASSUME NEW q \in Sane, NEW f
    PROVE  route_resync(q, f) \in Sane /\ Moves(q, route_resync(q, f))
  <1> DEFINE S == {s \in Slots : LET i == nm_case.iface[s]
                                 IN  \/ nm_if[i].link \in {"gone", "down"}
                                     \/ iface_carrier_down(i, f) = 1
                                     \/ netmon_iface_has_usable_ip(i, f) = 0}
  <1>1. S \in SUBSET Slots /\ \A s \in S : Lost(nm_case.iface[s])
    BY DEF iface_carrier_down, netmon_iface_has_usable_ip, Lost
  <1>2. route_resync(q, f) = q \/ route_resync(q, f) = remove_path_by_slot(q, S)
    BY Zenon DEF route_resync
  <1> HIDE DEF S
  <1>3. Moves(q, q)
    BY MovesNothing, Zenon
  <1> QED BY <1>1, <1>2, <1>3, RemoveSane, Zenon

\* The recovery timer, on whichever platform.
LEMMA TimerSane ==
    ASSUME nm_case \in NmCases, NEW q \in Sane, NEW f, NEW reuse
    PROVE  LET r == IF Windows THEN reconcile_all(q, f, reuse)
                               ELSE recover_dropped_paths_cb(q, f, reuse)
           IN  r \in Sane /\ Moves(q, r)
  <1> DEFINE p == netmon_platform_pre_scan(q, f)
  <1>1. p = q \/ p = route_resync(q, f)
    BY Zenon DEF netmon_platform_pre_scan
  <1>2. p \in Sane /\ Moves(q, p)
    BY <1>1, ResyncSane, MovesNothing, Zenon
  <1> HIDE DEF p
  <1>3. scan_slots(p, f, reuse) \in Sane /\ Moves(q, scan_slots(p, f, reuse))
    BY <1>2, ScanSane, MovesOn, Zenon
  <1>4. recover_dropped_paths_cb(q, f, reuse) = scan_slots(p, f, reuse)
    BY Zenon DEF recover_dropped_paths_cb, p
  <1>5. reconcile_all(q, f, reuse) \in Sane /\ Moves(q, reconcile_all(q, f, reuse))
    BY ScanSane, Zenon DEF reconcile_all
  <1> QED BY <1>3, <1>4, <1>5, Zenon

-----------------------------------------------------------------------------
(* The invariant *)

IfState == [link : Links, addr : BOOLEAN, route : BOOLEAN]

\* Every slot is open or shut, no release was refused, and the rest has its type.
NmInv ==
    /\ nm_case \in NmCases
    /\ nm_if \in [Ifaces -> IfState]
    /\ nm_msgs \in Seq(Message) /\ Len(nm_msgs) <= NmQueue
    /\ nm_slot \in [Slots -> OpenSlot \cup ShutSlot]
    /\ nm_fatal = FALSE
    /\ nm_tick \in 0..(RESYNC_EVERY_N_TICKS - 1)

\* What NmForCause allows a step to do.
ForCause ==
    \A s \in Slots :
        LET i == nm_case.iface[s]
        IN  /\ nm_slot[s].fd /\ ~nm_slot'[s].fd => Lost(i) \/ Reported(i)
            /\ ~nm_slot[s].fd /\ nm_slot'[s].fd => Fit(i)

\* An open slot and a shut one are as NmSound wants every slot to be.
LEMMA SlotSound ==
    ASSUME NEW x \in OpenSlot \cup ShutSlot
    PROVE  /\ x.ev = x.fd
           /\ x.held = IF x.fd THEN 1 ELSE 0
           /\ x.fd = (x.lib \in Live \cup {"recoverable"})
           /\ x.fd => x.recover_failures = 0
           /\ x \in [fd : BOOLEAN, ev : BOOLEAN, held : 0..2,
                     lib : Live \cup {"recoverable", "closed", "unlisted"},
                     recover_failures : 0..PATH_RECOVER_FAILURE_LIMIT]
  <1>0. /\ 0 \in 0..2 /\ 1 \in 0..2 /\ 0 \in 0..PATH_RECOVER_FAILURE_LIMIT
        /\ x = [fd |-> x.fd, ev |-> x.ev, held |-> x.held, lib |-> x.lib,
                recover_failures |-> x.recover_failures]
    <2>1. 0 \in 0..2 /\ 1 \in 0..2 /\ 0 \in 0..PATH_RECOVER_FAILURE_LIMIT
      BY LimitBounds
    <2>2. x = [fd |-> x.fd, ev |-> x.ev, held |-> x.held, lib |-> x.lib,
               recover_failures |-> x.recover_failures]
      BY SlotFields, Zenon
    <2> QED BY <2>1, <2>2, Zenon
  <1>1. CASE x \in OpenSlot
    <2>1. x.fd = TRUE /\ x.ev = TRUE /\ x.held = 1 /\ x.recover_failures = 0
          /\ x.lib \in Live \cup {"recoverable"}
      BY <1>1, Zenon DEF OpenSlot
    <2>2. x.lib \in Live \cup {"recoverable", "closed", "unlisted"}
      BY <2>1, Zenon
    <2>3. x \in [fd : BOOLEAN, ev : BOOLEAN, held : 0..2,
                 lib : Live \cup {"recoverable", "closed", "unlisted"},
                 recover_failures : 0..PATH_RECOVER_FAILURE_LIMIT]
      BY <1>0, <2>1, <2>2, Zenon
    <2> QED BY <2>1, <2>3, Zenon
  <1>2. CASE x \in ShutSlot
    <2>1. x.fd = FALSE /\ x.ev = FALSE /\ x.held = 0
          /\ x.recover_failures \in 0..PATH_RECOVER_FAILURE_LIMIT
          /\ x.lib \in {"closed", "unlisted"}
      BY <1>2, Zenon DEF ShutSlot
    <2>2. x.lib \in Live \cup {"recoverable", "closed", "unlisted"}
      BY <2>1, Zenon
    <2>3. x \in [fd : BOOLEAN, ev : BOOLEAN, held : 0..2,
                 lib : Live \cup {"recoverable", "closed", "unlisted"},
                 recover_failures : 0..PATH_RECOVER_FAILURE_LIMIT]
      BY <1>0, <2>1, <2>2, Zenon
    <2>4. (x.lib \in Live \cup {"recoverable"}) = FALSE
      BY <2>1 DEF Live
    <2> QED BY <2>1, <2>3, <2>4, Zenon
  <1> QED BY <1>1, <1>2, Zenon

\* The invariant is at least as strong as NmSound.
LEMMA NmInvSound == NmInv => NmSound
  <1> SUFFICES ASSUME NmInv PROVE NmSound
    BY Zenon
  <1>1. NmTypeOK
    <2>1. nm_slot \in [Slots -> [fd : BOOLEAN, ev : BOOLEAN, held : 0..2,
                                 lib : Live \cup {"recoverable", "closed", "unlisted"},
                                 recover_failures : 0..PATH_RECOVER_FAILURE_LIMIT]]
      BY SlotSound, Zenon DEF NmInv
    <2> QED BY <2>1, Zenon DEF NmInv, NmTypeOK, IfState
  <1>2. ~nm_fatal
    BY Zenon DEF NmInv
  <1>3. \A s \in Slots : nm_slot[s] \in OpenSlot \cup ShutSlot
    BY Zenon DEF NmInv
  <1> QED BY <1>1, <1>2, <1>3, SlotSound, Zenon DEF NmSound

\* Every slot is open at first.
LEMMA InitInv == NmInit => NmInv
  <1> SUFFICES ASSUME NmInit PROVE NmInv
    BY Zenon
  <1>1. nm_case \in NmCases /\ nm_fatal = FALSE
    BY Zenon DEF NmInit
  <1>2. nm_if \in [Ifaces -> IfState]
    <2>1. [link |-> "up", addr |-> TRUE, route |-> TRUE] \in IfState
      BY Zenon DEF IfState, Links
    <2> QED BY <2>1, Zenon DEF NmInit, Ifaces
  <1>3. nm_msgs \in Seq(Message) /\ Len(nm_msgs) <= NmQueue
    BY NetMonAssumption DEF NmInit
  <1>4. nm_slot \in [Slots -> OpenSlot \cup ShutSlot]
    BY Zenon DEF NmInit, Slots, OpenSlot, Live
  <1>5. nm_tick \in 0..(RESYNC_EVERY_N_TICKS - 1)
    BY NetMonAssumption DEF NmInit
  <1> QED BY <1>1, <1>2, <1>3, <1>4, <1>5, Zenon DEF NmInv

\* A queue that overflows loses its newest messages only.
LEMMA PostKeeps ==
    ASSUME NmInv, NEW m \in Message, Post(<<m>>)
    PROVE  nm_msgs' \in Seq(Message) /\ Len(nm_msgs') <= NmQueue
  <1> DEFINE q == nm_msgs \o <<m>>
             n == IF Len(q) < NmQueue THEN Len(q) ELSE NmQueue
  <1>1. CASE Windows
    BY <1>1, Zenon DEF Post, NmInv
  <1>2. CASE ~Windows
    <2>1. q \in Seq(Message)
      BY DEF NmInv
    <2>2. nm_msgs' = SubSeq(q, 1, n)
      BY <1>2, Zenon DEF Post
    <2> HIDE DEF q
    <2>3. n \in Nat /\ n <= Len(q) /\ n <= NmQueue
      BY <2>1, NetMonAssumption
    <2> QED BY <2>1, <2>2, <2>3
  <1> QED BY <1>1, <1>2, Zenon

\* What a handler that ends in Commit leaves.
LEMMA CommitKeeps ==
    ASSUME NmInv, NEW r \in Sane, Moves(Cur, r), Commit(r), nm_case' = nm_case
    PROVE  nm_slot' \in [Slots -> OpenSlot \cup ShutSlot]' /\ nm_fatal' = FALSE /\ ForCause
  <1>1. r.slot \in [Slots -> OpenSlot \cup ShutSlot] /\ r.fatal = FALSE
    BY Zenon DEF Sane
  <1>2. nm_slot' = r.slot /\ nm_fatal' = r.fatal /\ Cur.slot = nm_slot
    BY Zenon DEF Commit, Cur
  <1>3. ForCause
    BY <1>2, Zenon DEF ForCause, Moves
  <1>4. [Slots -> OpenSlot \cup ShutSlot]' = [Slots -> OpenSlot \cup ShutSlot]
    BY Zenon DEF Slots, OpenSlot, ShutSlot, Live
  <1> QED BY <1>1, <1>2, <1>3, <1>4, Zenon

\* A handler starts from a sane table.
LEMMA CurSane == NmInv => Cur \in Sane
  <1> SUFFICES ASSUME NmInv PROVE Cur \in Sane
    BY Zenon
  <1>1. nm_slot \in [Slots -> OpenSlot \cup ShutSlot] /\ nm_fatal = FALSE
    BY Zenon DEF NmInv
  <1>2. Cur = [slot |-> nm_slot, fatal |-> FALSE, ret |-> FALSE]
    BY <1>1, Zenon DEF Cur
  <1> QED BY <1>1, <1>2, SaneIs, Zenon

\* A step that keeps the table opens and closes nothing.
LEMMA SameTable ==
    ASSUME NmInv, UNCHANGED <<nm_case, nm_slot>>
    PROVE  nm_slot' \in [Slots -> OpenSlot \cup ShutSlot]' /\ ForCause
  <1>1. [Slots -> OpenSlot \cup ShutSlot]' = [Slots -> OpenSlot \cup ShutSlot]
    BY Zenon DEF Slots, OpenSlot, ShutSlot, Live
  <1>2. \A s \in Slots : nm_slot'[s] = nm_slot[s]
    BY Zenon
  <1>3. ForCause
    BY <1>2, Zenon DEF ForCause
  <1> QED BY <1>1, <1>3, Zenon DEF NmInv

\* The interfaces stay the configured ones.
LEMMA SameTypes ==
    ASSUME UNCHANGED nm_case
    PROVE  Ifaces' = Ifaces /\ Message' = Message /\ IfState' = IfState /\ Slots' = Slots
  BY Zenon DEF Ifaces, Message, IfState, Slots, Links

\* An interface changes: the table is left alone and the message has its type.
LEMMA KernelStep ==
    ASSUME NmInv, NEW i \in Ifaces,
           (\E l \in Links : LinkChanges(i, l)) \/ AddrChanges(i) \/ RouteChanges(i)
    PROVE  NmInv' /\ ForCause
  <1>0. nm_if[i] \in IfState
    BY Zenon DEF NmInv
  <1>1. UNCHANGED <<nm_case, nm_slot, nm_tick, nm_fatal>>
    BY Zenon DEF LinkChanges, AddrChanges, RouteChanges
  <1>2. nm_msgs' \in Seq(Message) /\ Len(nm_msgs') <= NmQueue
    <2>1. ASSUME NEW l \in Links, LinkChanges(i, l)
          PROVE  nm_msgs' \in Seq(Message) /\ Len(nm_msgs') <= NmQueue
      <3>1. PICK m : m = [type |-> IF l = "gone" THEN "dellink" ELSE "newlink", i |-> i, link |-> l]
        BY Zenon
      <3>2. m \in Message
        BY <3>1, Zenon DEF Message
      <3>3. Post(<<m>>)
        BY <2>1, <3>1, Zenon DEF LinkChanges
      <3> QED BY <3>2, <3>3, PostKeeps, Zenon
    <2>2. ASSUME AddrChanges(i)
          PROVE  nm_msgs' \in Seq(Message) /\ Len(nm_msgs') <= NmQueue
      <3>1. PICK m : m = [type |-> IF nm_if[i].addr THEN "deladdr" ELSE "newaddr", i |-> i,
                          link |-> nm_if[i].link]
        BY Zenon
      <3>2. m \in Message
        BY <1>0, <3>1, Zenon DEF Message, IfState
      <3>3. Post(<<m>>)
        BY <2>2, <3>1, Zenon DEF AddrChanges
      <3> QED BY <3>2, <3>3, PostKeeps, Zenon
    <2>3. ASSUME RouteChanges(i)
          PROVE  nm_msgs' \in Seq(Message) /\ Len(nm_msgs') <= NmQueue
      BY <2>3, Zenon DEF RouteChanges, NmInv
    <2> QED BY <2>1, <2>2, <2>3, Zenon
  <1>3. PICK x \in IfState : nm_if' = [nm_if EXCEPT ![i] = x]
    <2>1. ASSUME NEW l \in Links, LinkChanges(i, l)
          PROVE  \E x \in IfState : nm_if' = [nm_if EXCEPT ![i] = x]
      <3> DEFINE Routed(keep) == nm_if[i].route /\ (\/ l \in {"up", "dormant"}
                                                    \/ keep /\ l \in {"nocarrier", "stuck"})
      <3>1. ASSUME NEW keep \in BOOLEAN
            PROVE  [link |-> l, addr |-> nm_if[i].addr /\ l # "gone", route |-> Routed(keep)]
                      \in IfState
        BY Zenon DEF IfState
      <3>2. \E keep \in BOOLEAN : nm_if' = [nm_if EXCEPT ![i] =
               [link |-> l, addr |-> nm_if[i].addr /\ l # "gone", route |-> Routed(keep)]]
        BY <2>1, Zenon DEF LinkChanges
      <3> HIDE DEF Routed
      <3> QED BY <3>1, <3>2, Zenon
    <2>2. ASSUME AddrChanges(i)
          PROVE  \E x \in IfState : nm_if' = [nm_if EXCEPT ![i] = x]
      <3>1. nm_if[i].link \in Links
        BY <1>0, Zenon DEF IfState
      <3>2. [link |-> nm_if[i].link, addr |-> ~nm_if[i].addr,
             route |-> nm_if[i].route /\ ~nm_if[i].addr] \in IfState
        BY <3>1, Zenon DEF IfState
      <3>3. nm_if' = [nm_if EXCEPT ![i] =
               [link |-> nm_if[i].link, addr |-> ~nm_if[i].addr,
                route |-> nm_if[i].route /\ ~nm_if[i].addr]]
        BY <2>2, Zenon DEF AddrChanges
      <3> QED BY <3>2, <3>3, Zenon
    <2>3. ASSUME RouteChanges(i)
          PROVE  \E x \in IfState : nm_if' = [nm_if EXCEPT ![i] = x]
      <3>1. nm_if[i].link \in Links /\ nm_if[i].addr \in BOOLEAN
        BY <1>0, Zenon DEF IfState
      <3>2. [link |-> nm_if[i].link, addr |-> nm_if[i].addr, route |-> ~nm_if[i].route] \in IfState
        BY <3>1, Zenon DEF IfState
      <3>3. nm_if' = [nm_if EXCEPT ![i] =
               [link |-> nm_if[i].link, addr |-> nm_if[i].addr, route |-> ~nm_if[i].route]]
        BY <2>3, Zenon DEF RouteChanges
      <3> QED BY <3>2, <3>3, Zenon
    <2> QED BY <2>1, <2>2, <2>3, Zenon
  <1>4. nm_if' \in [Ifaces -> IfState]
    BY <1>3, Zenon DEF NmInv
  <1>5. nm_slot' \in [Slots -> OpenSlot \cup ShutSlot]' /\ ForCause
    BY <1>1, SameTable, Zenon
  <1>6. nm_case' \in NmCases /\ nm_fatal' = FALSE /\ nm_tick' \in 0..(RESYNC_EVERY_N_TICKS - 1)
    BY <1>1, Zenon DEF NmInv
  <1> QED BY <1>1, <1>2, <1>4, <1>5, <1>6, SameTypes, Zenon DEF NmInv

\* A remainder is below its divisor.
LEMMA RemainderBelow ==
    ASSUME NEW a \in Nat, NEW n \in Nat \ {0}
    PROVE  a % n \in 0..(n - 1)
  OBVIOUS

\* on_netlink_event and on_route_event.
LEMMA ReceiveStep ==
    ASSUME NmInv, NEW f, NEW reuse, Receive(f, reuse)
    PROVE  NmInv' /\ ForCause
  <1>1. /\ UNCHANGED <<nm_case, nm_if, nm_tick>> /\ nm_msgs # <<>> /\ nm_msgs' = Tail(nm_msgs)
        /\ Commit(IF Linux THEN on_netlink_event(Cur, Head(nm_msgs), f, reuse)
                           ELSE on_route_event(Cur, Head(nm_msgs), f, reuse))
    BY Zenon DEF Receive
  <1>2. nm_msgs \in Seq(Message) /\ Len(nm_msgs) <= NmQueue /\ nm_case \in NmCases
    BY Zenon DEF NmInv
  <1>3. /\ Head(nm_msgs) \in Message /\ nm_msgs' \in Seq(Message)
        /\ Len(nm_msgs') <= NmQueue
    BY <1>1, <1>2, NetMonAssumption
  <1>4. PICK r : r = IF Linux THEN on_netlink_event(Cur, Head(nm_msgs), f, reuse)
                              ELSE on_route_event(Cur, Head(nm_msgs), f, reuse)
    BY Zenon
  <1>5. r \in Sane /\ Moves(Cur, r)
    BY <1>1, <1>2, <1>3, <1>4, CurSane, EventSane, Zenon
  <1>6. nm_slot' \in [Slots -> OpenSlot \cup ShutSlot]' /\ nm_fatal' = FALSE /\ ForCause
    BY <1>1, <1>4, <1>5, CommitKeeps, Zenon
  <1>7. /\ nm_case' \in NmCases /\ nm_if' \in [Ifaces -> IfState]
        /\ nm_tick' \in 0..(RESYNC_EVERY_N_TICKS - 1)
    BY <1>1, Zenon DEF NmInv
  <1> QED BY <1>1, <1>3, <1>6, <1>7, SameTypes, Zenon DEF NmInv

\* The routing socket lost a message, and everything is looked at again.
LEMMA OverflowStep ==
    ASSUME NmInv, NEW f, RouteOverflow(f)
    PROVE  NmInv' /\ ForCause
  <1>1. UNCHANGED <<nm_case, nm_if, nm_tick, nm_msgs>> /\ Commit(route_resync(Cur, f))
    BY Zenon DEF RouteOverflow
  <1>2. PICK r : r = route_resync(Cur, f)
    BY Zenon
  <1>3. r \in Sane /\ Moves(Cur, r)
    BY <1>2, CurSane, ResyncSane, Zenon
  <1>4. nm_slot' \in [Slots -> OpenSlot \cup ShutSlot]' /\ nm_fatal' = FALSE /\ ForCause
    BY <1>1, <1>2, <1>3, CommitKeeps, Zenon
  <1>5. /\ nm_case' \in NmCases /\ nm_if' \in [Ifaces -> IfState]
        /\ nm_msgs' \in Seq(Message) /\ Len(nm_msgs') <= NmQueue
        /\ nm_tick' \in 0..(RESYNC_EVERY_N_TICKS - 1)
    BY <1>1, Zenon DEF NmInv
  <1> QED BY <1>1, <1>4, <1>5, SameTypes, Zenon DEF NmInv

\* The recovery timer, POSIX or Windows.
LEMMA TimerStep ==
    ASSUME NmInv, NEW f, NEW reuse, RecoverTimer(f, reuse)
    PROVE  NmInv' /\ ForCause
  <1>1. /\ UNCHANGED <<nm_case, nm_if, nm_msgs>>
        /\ nm_tick' = IF Darwin THEN (nm_tick + 1) % RESYNC_EVERY_N_TICKS ELSE nm_tick
        /\ Commit(IF Windows THEN reconcile_all(Cur, f, reuse)
                             ELSE recover_dropped_paths_cb(Cur, f, reuse))
    BY Zenon DEF RecoverTimer
  <1>2. PICK r : r = IF Windows THEN reconcile_all(Cur, f, reuse)
                                ELSE recover_dropped_paths_cb(Cur, f, reuse)
    BY Zenon
  <1>3. r \in Sane /\ Moves(Cur, r)
    <2>1. nm_case \in NmCases
      BY Zenon DEF NmInv
    <2> QED BY <1>2, <2>1, CurSane, TimerSane, Zenon
  <1>4. nm_slot' \in [Slots -> OpenSlot \cup ShutSlot]' /\ nm_fatal' = FALSE /\ ForCause
    BY <1>1, <1>2, <1>3, CommitKeeps, Zenon
  <1>5. nm_tick' \in 0..(RESYNC_EVERY_N_TICKS - 1)
    <2>1. nm_tick \in 0..(RESYNC_EVERY_N_TICKS - 1) /\ nm_tick + 1 \in Nat
      BY DEF NmInv
    <2>2. (nm_tick + 1) % RESYNC_EVERY_N_TICKS \in 0..(RESYNC_EVERY_N_TICKS - 1)
      BY <2>1, NetMonAssumption, RemainderBelow, Zenon
    <2> QED BY <1>1, <2>1, <2>2, Zenon
  <1>6. /\ nm_case' \in NmCases /\ nm_if' \in [Ifaces -> IfState]
        /\ nm_msgs' \in Seq(Message) /\ Len(nm_msgs') <= NmQueue
    BY <1>1, Zenon DEF NmInv
  <1> QED BY <1>1, <1>4, <1>5, <1>6, SameTypes, Zenon DEF NmInv

\* The library moves a path of an open slot on, or re-queues all it holds.
LEMMA LibraryStep ==
    ASSUME NmInv, (\E s \in Slots : LibraryMoves(s)) \/ Reconnecting
    PROVE  NmInv' /\ ForCause
  <1>0. nm_slot \in [Slots -> OpenSlot \cup ShutSlot]
    BY Zenon DEF NmInv
  <1>1. UNCHANGED <<nm_case, nm_if, nm_msgs, nm_tick, nm_fatal>>
    BY Zenon DEF LibraryMoves, Reconnecting
  <1>2. /\ nm_slot' \in [Slots -> OpenSlot \cup ShutSlot]
        /\ \A s \in Slots : nm_slot'[s].fd = nm_slot[s].fd
    <2>1. ASSUME NEW s \in Slots, LibraryMoves(s)
          PROVE  /\ nm_slot' \in [Slots -> OpenSlot \cup ShutSlot]
                 /\ \A t \in Slots : nm_slot'[t].fd = nm_slot[t].fd
      <3>1. PICK to \in {"active", "degraded", "recoverable"} :
               nm_slot[s].lib \in Live \ {to} /\ nm_slot' = [nm_slot EXCEPT ![s].lib = to]
        BY <2>1, Zenon DEF LibraryMoves
      <3>2. PICK x : x = nm_slot[s]
        BY Zenon
      <3>3. x \in OpenSlot
        BY <1>0, <3>1, <3>2, Zenon DEF ShutSlot, Live
      <3>4. PICK y : y = [x EXCEPT !.lib = to]
        BY Zenon
      <3>5. y \in OpenSlot /\ y.fd = x.fd
        BY <3>3, <3>4, Zenon DEF OpenSlot, Live
      <3>6. nm_slot' = [nm_slot EXCEPT ![s] = y]
        BY <3>1, <3>2, <3>4, Zenon
      <3>7. nm_slot' = [t \in Slots |-> IF t = s THEN y ELSE nm_slot[t]]
        BY <1>0, <3>6, Zenon
      <3> QED BY <1>0, <3>2, <3>5, <3>7, Zenon
    <2>2. ASSUME Reconnecting
          PROVE  /\ nm_slot' \in [Slots -> OpenSlot \cup ShutSlot]
                 /\ \A t \in Slots : nm_slot'[t].fd = nm_slot[t].fd
      <3>1. nm_slot' = [s \in Slots |-> [nm_slot[s] EXCEPT !.recover_failures = 0,
                             !.lib = IF nm_slot[s].fd THEN "pending" ELSE @]]
        BY <2>2, Zenon DEF Reconnecting
      <3>2. ASSUME NEW s \in Slots
            PROVE  nm_slot'[s] \in OpenSlot \cup ShutSlot /\ nm_slot'[s].fd = nm_slot[s].fd
        <4>1. PICK x : x = nm_slot[s]
          BY Zenon
        <4>2. PICK l : l = IF x.fd THEN "pending" ELSE x.lib
          BY Zenon
        <4>3. PICK y : y = [x EXCEPT !.recover_failures = 0, !.lib = l]
          BY Zenon
        <4>4. nm_slot'[s] = y
          BY <3>1, <4>1, <4>2, <4>3, Zenon
        <4>5. x \in OpenSlot \cup ShutSlot
          BY <1>0, <4>1, Zenon
        <4>6. CASE x \in OpenSlot
          <5>1. l = "pending" /\ x.fd = TRUE
            BY <4>2, <4>6, Zenon DEF OpenSlot
          <5>2. y \in OpenSlot /\ y.fd = TRUE
            BY <4>3, <4>6, <5>1, Zenon DEF OpenSlot, Live
          <5> QED BY <4>1, <4>4, <5>1, <5>2, Zenon
        <4>7. CASE x \in ShutSlot
          <5>1. l = x.lib /\ x.fd = FALSE
            BY <4>2, <4>7, Zenon DEF ShutSlot
          <5>2. y \in ShutSlot /\ y.fd = FALSE
            BY <4>3, <4>7, <5>1, LimitBounds, Zenon DEF ShutSlot
          <5> QED BY <4>1, <4>4, <5>1, <5>2, Zenon
        <4> QED BY <4>5, <4>6, <4>7, Zenon
      <3>3. nm_slot' = [s \in Slots |-> nm_slot'[s]]
        BY <3>1, Zenon
      <3> QED BY <3>2, <3>3, Zenon
    <2> QED BY <2>1, <2>2, Zenon
  <1>3. [Slots -> OpenSlot \cup ShutSlot]' = [Slots -> OpenSlot \cup ShutSlot]
    BY <1>1, Zenon DEF Slots, OpenSlot, ShutSlot, Live
  <1>4. ForCause
    <2>1. ASSUME NEW s \in Slots
          PROVE  ~(nm_slot[s].fd /\ ~nm_slot'[s].fd) /\ ~(~nm_slot[s].fd /\ nm_slot'[s].fd)
      BY <1>2, Zenon
    <2> QED BY <2>1, Zenon DEF ForCause
  <1>5. /\ nm_case' \in NmCases /\ nm_if' \in [Ifaces -> IfState] /\ nm_fatal' = FALSE
        /\ nm_msgs' \in Seq(Message) /\ Len(nm_msgs') <= NmQueue
        /\ nm_tick' \in 0..(RESYNC_EVERY_N_TICKS - 1)
    BY <1>1, Zenon DEF NmInv
  <1> QED BY <1>1, <1>2, <1>3, <1>4, <1>5, SameTypes, Zenon DEF NmInv

\* Every step keeps the invariant and moves sockets for cause.
LEMMA NmStep == NmInv /\ [NmNext]_nm_vars => NmInv' /\ (ForCause \/ UNCHANGED nm_vars)
  <1> SUFFICES ASSUME NmInv, [NmNext]_nm_vars
               PROVE  NmInv' /\ (ForCause \/ UNCHANGED nm_vars)
    BY Zenon
  <1>1. CASE UNCHANGED nm_vars
    <2>1. UNCHANGED <<nm_case, nm_if, nm_msgs, nm_slot, nm_tick, nm_fatal>>
      BY <1>1, Zenon DEF nm_vars
    <2>2. nm_slot' \in [Slots -> OpenSlot \cup ShutSlot]'
      BY <2>1, SameTable, Zenon
    <2>3. /\ nm_case' \in NmCases /\ nm_if' \in [Ifaces -> IfState] /\ nm_fatal' = FALSE
          /\ nm_msgs' \in Seq(Message) /\ Len(nm_msgs') <= NmQueue
          /\ nm_tick' \in 0..(RESYNC_EVERY_N_TICKS - 1)
      BY <2>1, Zenon DEF NmInv
    <2> QED BY <1>1, <2>1, <2>2, <2>3, SameTypes, Zenon DEF NmInv
  <1>2. CASE \E i \in Ifaces : (\E l \in Links : LinkChanges(i, l)) \/ AddrChanges(i) \/ RouteChanges(i)
    BY <1>2, KernelStep, Zenon
  <1>3. CASE \E f \in NmFaults, reuse \in Slots \cup {0} : Receive(f, reuse)
    BY <1>3, ReceiveStep, Zenon
  <1>4. CASE \E f \in {"ok", "ip", "media"} : RouteOverflow(f)
    BY <1>4, OverflowStep, Zenon
  <1>5. CASE \E f \in NmFaults, reuse \in Slots \cup {0} : RecoverTimer(f, reuse)
    BY <1>5, TimerStep, Zenon
  <1>6. CASE (\E s \in Slots : LibraryMoves(s)) \/ Reconnecting
    BY <1>6, LibraryStep, Zenon
  <1>7. CASE TunnelReady
    <2>1. UNCHANGED <<nm_case, nm_if, nm_msgs, nm_slot, nm_tick, nm_fatal>>
      BY <1>7, Zenon DEF TunnelReady
    <2>2. nm_slot' \in [Slots -> OpenSlot \cup ShutSlot]' /\ ForCause
      BY <2>1, SameTable, Zenon
    <2>3. /\ nm_case' \in NmCases /\ nm_if' \in [Ifaces -> IfState] /\ nm_fatal' = FALSE
          /\ nm_msgs' \in Seq(Message) /\ Len(nm_msgs') <= NmQueue
          /\ nm_tick' \in 0..(RESYNC_EVERY_N_TICKS - 1)
      BY <2>1, Zenon DEF NmInv
    <2> QED BY <2>1, <2>2, <2>3, SameTypes, Zenon DEF NmInv
  <1> QED BY <1>1, <1>2, <1>3, <1>4, <1>5, <1>6, <1>7, Zenon DEF NmNext

\* Whatever the interfaces do, in whatever order the messages, the timer and the
\* library's own moves are served, and whichever probe, socket or registration
\* fails: every slot has its socket, its armed read event and exactly one
\* transport of the library, or none of them; no release is ever refused.  For any
\* number of slots and interfaces, any failure limit, any queue.
THEOREM MonitorSound == NmSpec => []NmSound
  <1>1. NmInit => NmInv
    BY InitInv, Zenon
  <1>2. NmInv /\ [NmNext]_nm_vars => NmInv'
    BY NmStep, Zenon
  <1>3. NmInv => NmSound
    BY NmInvSound, Zenon
  <1> QED BY <1>1, <1>2, <1>3, PTL DEF NmSpec

\* No step closes a socket unless its interface has lost its link or its
\* addresses, or the message being handled says so, whichever probe fails, and
\* never for a dormant link on Linux; none opens one on an interface that is
\* down, has no address, or whose lost carrier the probe can see (Darwin's
\* IFF_RUNNING may hide it).
THEOREM DropsForCause == NmSpec => NmForCause
  <1>1. NmInit => NmInv
    BY InitInv, Zenon
  <1>2. NmInv /\ [NmNext]_nm_vars => NmInv'
    BY NmStep, Zenon
  <1>3. NmInv /\ [NmNext]_nm_vars
          => [\A s \in Slots :
                 LET i == nm_case.iface[s]
                 IN  /\ nm_slot[s].fd /\ ~nm_slot'[s].fd => Lost(i) \/ Reported(i)
                     /\ ~nm_slot[s].fd /\ nm_slot'[s].fd => Fit(i)]_nm_vars
    BY NmStep, Zenon DEF ForCause
  <1> QED BY <1>1, <1>2, <1>3, PTL DEF NmSpec, NmForCause
=============================================================================
