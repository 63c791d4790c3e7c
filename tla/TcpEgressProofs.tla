-------------------------- MODULE TcpEgressProofs --------------------------
(***************************************************************************)
(* Every step of TcpEgress keeps the invariant EgInv, and EgInv implies    *)
(* what the runs check, for every set of addresses, every chunk size and   *)
(* budget and every case.  TcpEgressFlowProofs says what a handler does to *)
(* the one flow it works on; here its result is committed to the tables,   *)
(* where the other flows, streams and descriptors have to stay linked and  *)
(* counted.  Counting is what the steps use of finite sets; it is shown    *)
(* last, before the theorems.                                              *)
(***************************************************************************)
EXTENDS TcpEgressFlowProofs

\* An address that holds no flow holds the blank one.
LEMMA DeadOrAlive ==
    ASSUME NEW ef \in Flow \cup {NoEgFlow}
    PROVE  /\ ef.live => ef \in Flow
           /\ ~ef.live => ef = NoEgFlow
<1>1. ef \in Flow => ef.live = TRUE
  BY Zenon DEF Flow
<1>2. ef = NoEgFlow => ef.live = FALSE
  BY DEF NoEgFlow
<1> QED
  BY <1>1, <1>2, Zenon

\* The registration of a flow is its own.
LEMMA InterestOwn ==
    ASSUME NEW a, NEW ef
    PROVE  Interest(a, ef).ctx = a
<1>1. CASE ef.state = "CONNECTING"
  BY <1>1, Zenon DEF Interest
<1>2. CASE ef.state # "CONNECTING"
  BY <1>2, Zenon DEF Interest
<1> QED
  BY <1>1, <1>2, Zenon

\* The run of a handler for flow a begins with a sound record.
LEMMA OfWhole ==
    ASSUME EgInv, NEW a \in EgAddrs, eg_flow[a].live, NEW q, q = Of(a)
    PROVE  /\ Whole(q) /\ Polled(q) /\ q.flow = eg_flow[a] /\ q.addr = a
           /\ q.sid = eg_flow[a].stream /\ q.num = eg_flow[a].fd
           /\ q.conn = eg_conn_count /\ q.fds = eg_fd_count /\ q.opened = eg_opened
           /\ q.erring = eg_erring /\ q.stream = eg_stream[eg_flow[a].stream]
<1>1. eg_flow[a] \in Flow
  <2>1. eg_flow[a] \in Flow \cup {NoEgFlow}
    BY Zenon DEF EgInv, EgTypeOK
  <2> QED
    BY <2>1, DeadOrAlive, Zenon
<1>2. eg_flow[a].stream \in EgStreams /\ eg_flow[a].fd \in EgFds
  BY <1>1, Zenon DEF Flow
<1>3. eg_stream[eg_flow[a].stream] \in Stream /\ eg_fd[eg_flow[a].fd] \in Registration
  BY <1>2, Zenon DEF EgInv, EgTypeOK
<1>4. eg_conn_count \in Int /\ eg_fd_count \in Int
  <2>1. EgLive \in SUBSET EgAddrs
    BY Zenon DEF EgLive
  <2>2. Cardinality(EgLive) \in Nat
    BY <2>1, Zenon DEF EgInv, EgCounted, Counting
  <2> QED
    BY <2>2 DEF EgInv, EgCounted
<1>5. /\ q.flow = eg_flow[a] /\ q.addr = a /\ q.sid = eg_flow[a].stream /\ q.num = eg_flow[a].fd
      /\ q.conn = eg_conn_count /\ q.fds = eg_fd_count /\ q.opened = eg_opened
      /\ q.erring = eg_erring /\ q.stream = eg_stream[eg_flow[a].stream]
      /\ q.reg = eg_fd[eg_flow[a].fd]
  BY Zenon DEF Of, At
<1>6. q \in Handler
  BY <1>1, <1>2, <1>3, <1>4, Zenon DEF Of, At, Handler, EgInv, EgTypeOK
<1>7. Sound(a, eg_flow[a], eg_stream[eg_flow[a].stream], eg_fd[eg_flow[a].fd])
  BY Zenon DEF EgInv, EgLinked
<1> QED
  BY <1>5, <1>6, <1>7, Zenon DEF Sound, Whole, Polled

\* What a handler run may leave behind: a sound flow or none.
Alive(q) == Whole(q) /\ Polled(q)
Dead(q) ==
    /\ q.flow = NoEgFlow /\ q.reg = Unregistered
    /\ q.stream \in Stream /\ q.stream.slot = "none"
    /\ ~q.stream.open => q.stream = NoStream
    /\ q.opened \in Nat /\ q.erring \in Failure /\ q.errno \in {"EAGAIN", "other"}

\* The address "none" is no flow's.
LEMMA NoneIsNoFlow == \A a \in EgAddrs : a # "none"
BY EgressAssumption, Zenon

\* What Commit writes where.
LEMMA CommitWrites ==
    ASSUME EgInv, NEW q, q.addr \in EgAddrs, q.sid \in EgStreams, q.num \in EgFds, Commit(q)
    PROVE  /\ eg_flow'[q.addr] = q.flow
           /\ \A b \in EgAddrs : b # q.addr => eg_flow'[b] = eg_flow[b]
           /\ eg_stream'[q.sid] = q.stream
           /\ \A t \in EgStreams : t # q.sid => eg_stream'[t] = eg_stream[t]
           /\ eg_fd'[q.num] = q.reg
           /\ \A g \in EgFds : g # q.num => eg_fd'[g] = eg_fd[g]
           /\ q.flow \in Flow \cup {NoEgFlow} => eg_flow' \in [EgAddrs -> Flow \cup {NoEgFlow}]
           /\ q.stream \in Stream => eg_stream' \in [EgStreams -> Stream]
           /\ q.reg \in Registration => eg_fd' \in [EgFds -> Registration]
BY Zenon DEF Commit, EgInv, EgTypeOK

\* No other flow is on the stream or the descriptor of this one.
LEMMA OthersElsewhere ==
    ASSUME EgInv, NEW a \in EgAddrs, NEW s, NEW f,
           eg_stream[s].slot \in {a, "none"}, eg_fd[f].ctx \in {a, "none"},
           NEW b \in EgAddrs, b # a, eg_flow[b].live
    PROVE  eg_flow[b].stream # s /\ eg_flow[b].fd # f
<1>1. Sound(b, eg_flow[b], eg_stream[eg_flow[b].stream], eg_fd[eg_flow[b].fd])
  BY Zenon DEF EgInv, EgLinked
<1>2. eg_stream[eg_flow[b].stream].slot = b /\ eg_fd[eg_flow[b].fd] = Interest(b, eg_flow[b])
  BY <1>1, Zenon DEF Sound
<1>3. eg_fd[eg_flow[b].fd].ctx = b
  BY <1>2, InterestOwn, Zenon
<1> QED
  BY <1>2, <1>3, NoneIsNoFlow, Zenon

\* A handler run that leaves its flow sound or gone keeps the tables linked.
LEMMA CommitLinks ==
    ASSUME EgInv, NEW a \in EgAddrs, NEW s \in EgStreams, NEW f \in EgFds, NEW q,
           q.addr = a, q.sid = s, q.num = f,
           eg_stream[s].slot \in {a, "none"}, eg_fd[f].ctx \in {a, "none"},
           eg_flow[a].live => eg_flow[a].stream = s /\ eg_flow[a].fd = f,
           Alive(q) \/ Dead(q), Commit(q)
    PROVE  /\ EgTypeOK' /\ EgLinked'
           /\ Alive(q) => EgLive' = EgLive \cup {a}
           /\ Dead(q) => EgLive' = EgLive \ {a}
<1>1. /\ Alive(q) => /\ q \in Handler /\ q.flow \in Flow /\ q.flow.live /\ q.flow.stream = s
                     /\ q.flow.fd = f /\ q.stream \in Stream /\ q.reg \in Registration
                     /\ q.stream.slot = a /\ q.reg.ctx = a /\ q.stream.open
                     /\ Sound(a, q.flow, q.stream, q.reg)
  <2> SUFFICES ASSUME Alive(q) PROVE /\ q \in Handler /\ q.flow \in Flow /\ q.flow.live
                     /\ q.flow.stream = s
                     /\ q.flow.fd = f /\ q.stream \in Stream /\ q.reg \in Registration
                     /\ q.stream.slot = a /\ q.reg.ctx = a /\ q.stream.open
                     /\ Sound(a, q.flow, q.stream, q.reg)
    BY Zenon
  <2>1. q \in Handler
    BY Zenon DEF Alive, Whole
  <2>2. q.flow \in Flow /\ q.stream \in Stream /\ q.reg \in Registration
    BY <2>1, Zenon DEF Handler
  <2>3. q.flow.live
    BY <2>2, Zenon DEF Flow
  <2>4. /\ q.flow.stream = s /\ q.flow.fd = f /\ q.stream.slot = a /\ q.stream.open
        /\ q.reg = Interest(a, q.flow) /\ Down(q.flow, q.stream) /\ Up(q.flow, q.stream)
    BY Zenon DEF Alive, Whole, Polled
  <2>5. q.reg.ctx = a
    BY <2>4, InterestOwn, Zenon
  <2> QED
    BY <2>1, <2>2, <2>3, <2>4, <2>5, Zenon DEF Sound
<1>2. Dead(q) => ~q.flow.live /\ q.flow = NoEgFlow /\ q.reg.ctx = "none" /\ q.reg \in Registration
  <2>1. NoEgFlow.live = FALSE /\ Unregistered.ctx = "none"
    BY DEF NoEgFlow, Unregistered
  <2>2. Unregistered \in Registration
    BY Flagged, Zenon DEF Unregistered, Registration
  <2> QED
    BY <2>1, <2>2, Zenon DEF Dead
<1>3. q.stream \in Stream /\ q.reg \in Registration /\ q.flow \in Flow \cup {NoEgFlow}
  BY <1>1, <1>2, Zenon DEF Dead
<1>4. q.opened \in Nat /\ q.erring \in Failure /\ q.errno \in {"EAGAIN", "other"}
  BY <1>1, Zenon DEF Dead, Handler
<1>5. /\ eg_flow'[a] = q.flow /\ \A b \in EgAddrs : b # a => eg_flow'[b] = eg_flow[b]
      /\ eg_stream'[s] = q.stream /\ \A t \in EgStreams : t # s => eg_stream'[t] = eg_stream[t]
      /\ eg_fd'[f] = q.reg /\ \A g \in EgFds : g # f => eg_fd'[g] = eg_fd[g]
      /\ eg_flow' \in [EgAddrs -> Flow \cup {NoEgFlow}]
      /\ eg_stream' \in [EgStreams -> Stream] /\ eg_fd' \in [EgFds -> Registration]
  BY <1>3, CommitWrites, Zenon
<1>6. EgTypeOK'
  BY <1>4, <1>5, Zenon DEF EgTypeOK, Commit, EgInv
<1>7. \A b \in EgAddrs : b # a /\ eg_flow[b].live =>
        /\ eg_flow[b].stream # s /\ eg_flow[b].fd # f
        /\ eg_flow[b].stream \in EgStreams /\ eg_flow[b].fd \in EgFds
  <2> SUFFICES ASSUME NEW b \in EgAddrs, b # a, eg_flow[b].live
               PROVE  /\ eg_flow[b].stream # s /\ eg_flow[b].fd # f
                      /\ eg_flow[b].stream \in EgStreams /\ eg_flow[b].fd \in EgFds
    BY Zenon
  <2>1. eg_flow[b] \in Flow
    BY Zenon DEF EgInv, EgLinked, Sound
  <2>2. eg_flow[b].stream \in EgStreams /\ eg_flow[b].fd \in EgFds
    BY <2>1, Zenon DEF Flow
  <2>3. eg_flow[b].stream # s /\ eg_flow[b].fd # f
    BY OthersElsewhere
  <2> QED
    BY <2>2, <2>3, Zenon
<1>8. ASSUME NEW b \in EgAddrs, eg_flow'[b].live
      PROVE  Sound(b, eg_flow'[b], eg_stream'[eg_flow'[b].stream], eg_fd'[eg_flow'[b].fd])
  <2>1. CASE b = a
    <3>1. eg_flow'[b] = q.flow /\ q.flow.live
      BY <1>5, <1>8, <2>1, Zenon
    <3>2. q.flow.stream = s /\ q.flow.fd = f /\ Sound(b, q.flow, q.stream, q.reg)
      BY <1>1, <1>2, <2>1, <3>1, Zenon
    <3>3. eg_stream'[eg_flow'[b].stream] = q.stream /\ eg_fd'[eg_flow'[b].fd] = q.reg
      BY <1>5, <3>1, <3>2, Zenon
    <3> QED
      BY <3>1, <3>2, <3>3, Zenon
  <2>2. CASE b # a
    <3>1. eg_flow'[b] = eg_flow[b] /\ eg_flow[b].live
      BY <1>5, <1>8, <2>2, Zenon
    <3>2. /\ eg_stream'[eg_flow[b].stream] = eg_stream[eg_flow[b].stream]
          /\ eg_fd'[eg_flow[b].fd] = eg_fd[eg_flow[b].fd]
      BY <1>5, <1>7, <2>2, <3>1, Zenon
    <3>3. Sound(b, eg_flow[b], eg_stream[eg_flow[b].stream], eg_fd[eg_flow[b].fd])
      BY <3>1, Zenon DEF EgInv, EgLinked
    <3> QED
      BY <3>1, <3>2, <3>3, Zenon
  <2> QED
    BY <2>1, <2>2, Zenon
<1>9. ASSUME NEW t \in EgStreams, eg_stream'[t].slot # "none"
      PROVE  eg_flow'[eg_stream'[t].slot].live /\ eg_flow'[eg_stream'[t].slot].stream = t
  <2>1. CASE t = s
    <3>1. eg_stream'[t] = q.stream /\ q.stream.slot # "none"
      BY <1>5, <1>9, <2>1, Zenon
    <3>2. Alive(q)
      BY <3>1, Zenon DEF Dead
    <3>3. q.stream.slot = a /\ q.flow.live /\ q.flow.stream = t
      BY <1>1, <2>1, <3>2, Zenon
    <3> QED
      BY <1>5, <3>1, <3>3
  <2>2. CASE t # s
    <3>1. eg_stream'[t] = eg_stream[t]
      BY <1>5, <2>2, Zenon
    <3>2. eg_flow[eg_stream[t].slot].live /\ eg_flow[eg_stream[t].slot].stream = t
      BY <1>9, <3>1, Zenon DEF EgInv, EgLinked
    <3>3. eg_stream[t].slot \in EgAddrs
      BY <1>9, <3>1, Zenon DEF EgInv, EgTypeOK, Stream
    <3>4. eg_stream[t].slot # a
      BY <2>2, <3>2, Zenon
    <3>5. eg_flow'[eg_stream[t].slot] = eg_flow[eg_stream[t].slot]
      BY <1>5, <3>3, <3>4, Zenon
    <3> QED
      BY <3>1, <3>2, <3>5
  <2> QED
    BY <2>1, <2>2, Zenon
<1>10. ASSUME NEW g \in EgFds, eg_fd'[g].ctx # "none"
       PROVE  eg_flow'[eg_fd'[g].ctx].live /\ eg_flow'[eg_fd'[g].ctx].fd = g
  <2>1. CASE g = f
    <3>1. eg_fd'[g] = q.reg /\ q.reg.ctx # "none"
      BY <1>5, <1>10, <2>1, Zenon
    <3>2. q.reg.ctx = a /\ q.flow.live /\ q.flow.fd = g
      BY <1>1, <1>2, <2>1, <3>1, Zenon
    <3> QED
      BY <1>5, <3>1, <3>2
  <2>2. CASE g # f
    <3>1. eg_fd'[g] = eg_fd[g]
      BY <1>5, <2>2, Zenon
    <3>2. eg_flow[eg_fd[g].ctx].live /\ eg_flow[eg_fd[g].ctx].fd = g
      BY <1>10, <3>1, Zenon DEF EgInv, EgLinked
    <3>3. eg_fd[g].ctx \in EgAddrs
      BY <1>10, <3>1, Zenon DEF EgInv, EgTypeOK, Registration
    <3>4. eg_fd[g].ctx # a
      BY <2>2, <3>2, Zenon
    <3>5. eg_flow'[eg_fd[g].ctx] = eg_flow[eg_fd[g].ctx]
      BY <1>5, <3>3, <3>4, Zenon
    <3> QED
      BY <3>1, <3>2, <3>5
  <2> QED
    BY <2>1, <2>2, Zenon
<1>11. ASSUME NEW t \in EgStreams, ~eg_stream'[t].open
       PROVE  eg_stream'[t] = NoStream
  <2>1. CASE t = s
    BY <1>1, <1>5, <1>11, <2>1, Zenon DEF Dead
  <2>2. CASE t # s
    BY <1>5, <1>11, <2>2, Zenon DEF EgInv, EgLinked
  <2> QED
    BY <2>1, <2>2, Zenon
<1>12. EgLinked'
  BY <1>8, <1>9, <1>10, <1>11, Zenon DEF EgLinked
<1>13. Alive(q) => EgLive' = EgLive \cup {a}
  <2> SUFFICES ASSUME Alive(q) PROVE EgLive' = EgLive \cup {a}
    BY Zenon
  <2>1. eg_flow'[a].live
    BY <1>1, <1>5
  <2> QED
    BY <1>5, <2>1 DEF EgLive
<1>14. Dead(q) => EgLive' = EgLive \ {a}
  BY <1>2, <1>5, Zenon DEF EgLive
<1> QED
  BY <1>6, <1>12, <1>13, <1>14, Zenon

\* There are finitely many flows, and the counters count them.
LEMMA LiveCounted ==
    ASSUME EgInv
    PROVE  /\ Counting /\ Cardinality(EgLive) \in Nat
           /\ eg_conn_count = Cardinality(EgLive) /\ eg_fd_count = Cardinality(EgLive)
           /\ EgLive \subseteq EgAddrs
<1>1. EgLive \in SUBSET EgAddrs
  BY Zenon DEF EgLive
<1>2. Cardinality(EgLive) \in Nat
  BY <1>1, Zenon DEF EgInv, EgCounted, Counting
<1> QED
  BY <1>1, <1>2, Zenon DEF EgInv, EgCounted

\* Where the flow of a handler run is linked.
LEMMA LinkedAt ==
    ASSUME EgInv, NEW a \in EgAddrs, eg_flow[a].live
    PROVE  /\ eg_flow[a] \in Flow
           /\ eg_flow[a].stream \in EgStreams /\ eg_flow[a].fd \in EgFds
           /\ eg_stream[eg_flow[a].stream].slot = a /\ eg_fd[eg_flow[a].fd].ctx = a
           /\ a \in EgLive
<1>1. Sound(a, eg_flow[a], eg_stream[eg_flow[a].stream], eg_fd[eg_flow[a].fd])
  BY Zenon DEF EgInv, EgLinked
<1>2. /\ eg_flow[a] \in Flow /\ eg_stream[eg_flow[a].stream].slot = a
      /\ eg_fd[eg_flow[a].fd] = Interest(a, eg_flow[a])
  BY <1>1, Zenon DEF Sound
<1>3. eg_fd[eg_flow[a].fd].ctx = a
  BY <1>2, InterestOwn, Zenon
<1>4. eg_flow[a].stream \in EgStreams /\ eg_flow[a].fd \in EgFds
  BY <1>2, Zenon DEF Flow
<1> QED
  BY <1>2, <1>3, <1>4, Zenon DEF EgLive

\* A handler run that leaves its flow sound.
LEMMA AliveStep ==
    ASSUME EgInv, NEW a \in EgAddrs, eg_flow[a].live, NEW q, q = Of(a),
           NEW z, Whole(z), Polled(z), Outer(q, z), Commit(z)
    PROVE  EgInv' /\ eg_erring' = z.erring
<1>1. /\ q.addr = a /\ q.sid = eg_flow[a].stream /\ q.num = eg_flow[a].fd
      /\ q.conn = eg_conn_count /\ q.fds = eg_fd_count
  BY OfWhole, Zenon
<1>2. /\ z.addr = a /\ z.sid = eg_flow[a].stream /\ z.num = eg_flow[a].fd
      /\ z.conn = eg_conn_count /\ z.fds = eg_fd_count
  BY <1>1, Zenon DEF Outer
<1>3. Alive(z)
  BY Zenon DEF Alive
<1>4. EgTypeOK' /\ EgLinked' /\ EgLive' = EgLive \cup {a}
  <2>1. PICK s \in EgStreams : s = eg_flow[a].stream /\ eg_stream[s].slot \in {a, "none"}
    BY LinkedAt, Zenon
  <2>2. PICK f \in EgFds : f = eg_flow[a].fd /\ eg_fd[f].ctx \in {a, "none"}
    BY LinkedAt, Zenon
  <2>3. z.sid = s /\ z.num = f /\ z.addr = a
    BY <1>2, <2>1, <2>2, Zenon
  <2> QED
    BY <1>3, <2>1, <2>2, <2>3, CommitLinks, Zenon
<1>5. EgLive' = EgLive
  BY <1>4, LinkedAt, Zenon
<1>6. EgCounted'
  BY <1>2, <1>5, LiveCounted, Zenon DEF EgCounted, Commit
<1> QED
  BY <1>4, <1>6, Zenon DEF EgInv, Commit

\* A handler run that ends its flow.
LEMMA DeadStep ==
    ASSUME EgInv, NEW a \in EgAddrs, eg_flow[a].live, NEW q, q = Of(a),
           NEW z, Dead(z), z.addr = q.addr, z.sid = q.sid, z.num = q.num,
           z.conn = q.conn - 1, z.fds = q.fds - 1, Commit(z)
    PROVE  EgInv' /\ eg_erring' = z.erring
<1>1. /\ q.addr = a /\ q.sid = eg_flow[a].stream /\ q.num = eg_flow[a].fd
      /\ q.conn = eg_conn_count /\ q.fds = eg_fd_count
  BY OfWhole, Zenon
<1>2. EgTypeOK' /\ EgLinked' /\ EgLive' = EgLive \ {a}
  <2>1. PICK s \in EgStreams : s = eg_flow[a].stream /\ eg_stream[s].slot \in {a, "none"}
    BY LinkedAt, Zenon
  <2>2. PICK f \in EgFds : f = eg_flow[a].fd /\ eg_fd[f].ctx \in {a, "none"}
    BY LinkedAt, Zenon
  <2>3. z.sid = s /\ z.num = f /\ z.addr = a
    BY <1>1, <2>1, <2>2, Zenon
  <2> QED
    BY <2>1, <2>2, <2>3, CommitLinks, Zenon
<1>3. Cardinality(EgLive \ {a}) = Cardinality(EgLive) - 1
  BY LiveCounted, LinkedAt, Zenon DEF Counting
<1>4. EgCounted'
  BY <1>1, <1>2, <1>3, LiveCounted, Zenon DEF EgCounted, Commit
<1> QED
  BY <1>2, <1>4, Zenon DEF EgInv, Commit

\* A handler run that destroys its flow and leaves the stream open.
LEMMA GoneStep ==
    ASSUME EgInv, NEW a \in EgAddrs, eg_flow[a].live, NEW q, q = Of(a),
           NEW z, Gone(q, z), Commit(z)
    PROVE  EgInv' /\ eg_erring' = eg_erring
<1>1. Whole(q) /\ q.erring = eg_erring
  BY OfWhole, Zenon
<1>2. z.stream.open
  BY <1>1, Zenon DEF Whole, Gone
<1>3. Dead(z)
  BY <1>2, Zenon DEF Dead, Gone, Ended
<1>4. EgInv' /\ eg_erring' = z.erring
  BY <1>3, DeadStep, Zenon DEF Gone
<1> QED
  BY <1>1, <1>4, Zenon DEF Gone

\* The flow a stream or a descriptor names is live and names it back.
LEMMA SlotFlow ==
    ASSUME EgInv, NEW s \in EgStreams, eg_stream[s].slot # "none"
    PROVE  /\ eg_stream[s].slot \in EgAddrs
           /\ eg_flow[eg_stream[s].slot].live /\ eg_flow[eg_stream[s].slot].stream = s
<1>1. eg_stream[s] \in Stream
  BY Zenon DEF EgInv, EgTypeOK
<1>2. eg_stream[s].slot \in EgAddrs
  BY <1>1, Zenon DEF Stream
<1> QED
  BY <1>2, Zenon DEF EgInv, EgLinked

\* The same for a descriptor.
LEMMA CtxFlow ==
    ASSUME EgInv, NEW f \in EgFds, eg_fd[f].ctx # "none"
    PROVE  /\ eg_fd[f].ctx \in EgAddrs
           /\ eg_flow[eg_fd[f].ctx].live /\ eg_flow[eg_fd[f].ctx].fd = f
<1>1. eg_fd[f] \in Registration
  BY Zenon DEF EgInv, EgTypeOK
<1>2. eg_fd[f].ctx \in EgAddrs
  BY <1>1, Zenon DEF Registration
<1> QED
  BY <1>2, Zenon DEF EgInv, EgLinked

\* A handler run on a stream that has no flow.
LEMMA StreamStep ==
    ASSUME EgInv, NEW s \in EgStreams, eg_stream[s].slot = "none",
           NEW st \in Stream, st.slot = "none", ~st.open => st = NoStream, CommitStream(s, st)
    PROVE  EgInv' /\ eg_erring' = eg_erring
<1>1. /\ eg_stream'[s] = st /\ \A t \in EgStreams : t # s => eg_stream'[t] = eg_stream[t]
      /\ eg_stream' \in [EgStreams -> Stream]
      /\ eg_flow' = eg_flow /\ eg_fd' = eg_fd /\ eg_case' = eg_case
      /\ eg_opened' = eg_opened /\ eg_erring' = eg_erring /\ eg_errno' = eg_errno
      /\ eg_conn_count' = eg_conn_count /\ eg_fd_count' = eg_fd_count
  BY Zenon DEF CommitStream, EgInv, EgTypeOK
<1>2. EgTypeOK'
  BY <1>1, Zenon DEF EgTypeOK, EgInv
<1>3. ASSUME NEW b \in EgAddrs, eg_flow'[b].live
      PROVE  Sound(b, eg_flow'[b], eg_stream'[eg_flow'[b].stream], eg_fd'[eg_flow'[b].fd])
  <2>1. eg_flow[b].live /\ eg_flow'[b] = eg_flow[b] /\ eg_fd' = eg_fd
    BY <1>1, <1>3, Zenon
  <2>2. eg_flow[b].stream \in EgStreams /\ eg_stream[eg_flow[b].stream].slot = b
    BY <2>1, LinkedAt, Zenon
  <2>3. eg_flow[b].stream # s
    BY <2>2, NoneIsNoFlow, Zenon
  <2>4. eg_stream'[eg_flow[b].stream] = eg_stream[eg_flow[b].stream]
    BY <1>1, <2>2, <2>3, Zenon
  <2>5. Sound(b, eg_flow[b], eg_stream[eg_flow[b].stream], eg_fd[eg_flow[b].fd])
    BY <2>1, Zenon DEF EgInv, EgLinked
  <2> QED
    BY <2>1, <2>4, <2>5, Zenon
<1>4. ASSUME NEW t \in EgStreams, eg_stream'[t].slot # "none"
      PROVE  eg_flow'[eg_stream'[t].slot].live /\ eg_flow'[eg_stream'[t].slot].stream = t
  <2>1. t # s
    BY <1>1, <1>4, Zenon
  <2>2. eg_stream'[t] = eg_stream[t]
    BY <1>1, <2>1, Zenon
  <2>3. eg_stream[t].slot # "none"
    BY <1>4, <2>2, Zenon
  <2>4. eg_flow[eg_stream[t].slot].live /\ eg_flow[eg_stream[t].slot].stream = t
    BY <2>3, SlotFlow, Zenon
  <2> QED
    BY <1>1, <2>2, <2>4
<1>5. \A g \in EgFds : eg_fd'[g].ctx # "none" =>
          eg_flow'[eg_fd'[g].ctx].live /\ eg_flow'[eg_fd'[g].ctx].fd = g
  BY <1>1, Zenon DEF EgInv, EgLinked
<1>6. ASSUME NEW t \in EgStreams, ~eg_stream'[t].open PROVE eg_stream'[t] = NoStream
  <2>1. CASE t = s
    BY <1>1, <1>6, <2>1, Zenon
  <2>2. CASE t # s
    BY <1>1, <1>6, <2>2, Zenon DEF EgInv, EgLinked
  <2> QED
    BY <2>1, <2>2, Zenon
<1>7. EgLinked'
  BY <1>3, <1>4, <1>5, <1>6, Zenon DEF EgLinked
<1>8. EgCounted'
  BY <1>1, Zenon DEF EgCounted, EgInv, EgLive
<1> QED
  BY <1>1, <1>2, <1>7, <1>8, Zenon DEF EgInv

\* While an address is free so is a descriptor, and nobody polls the one socket returns.
LEMMA FreeFd ==
    ASSUME EgInv, NEW a \in EgAddrs, a \notin EgLive,
           NEW f, f = CHOOSE g \in FreeFds : \A h \in FreeFds : g <= h
    PROVE  f \in EgFds /\ eg_fd[f].ctx = "none"
<1>1. EgLive \in SUBSET EgAddrs /\ EgLive # EgAddrs
  BY Zenon DEF EgLive
<1>2. PICK F : F = [b \in EgLive |-> eg_flow[b].fd]
  BY Zenon
<1>3. F \in [EgLive -> EgFds] /\ \A b \in EgLive : F[b] = eg_flow[b].fd
  <2>1. \A b \in EgLive : eg_flow[b].fd \in EgFds
    BY LinkedAt, Zenon DEF EgLive
  <2> QED
    BY <1>2, <2>1, Zenon
<1>4. \E g \in EgFds : /\ \A b \in EgLive : F[b] # g
                      /\ \A h \in EgFds : (\A b \in EgLive : F[b] # h) => g <= h
  BY <1>1, <1>3, Zenon DEF EgInv, EgCounted, Counting
<1>5. f \in FreeFds
  <2>1. \E g \in FreeFds : \A h \in FreeFds : g <= h
    BY <1>3, <1>4, Zenon DEF FreeFds
  <2> QED
    BY <2>1, Zenon
<1>6. f \in EgFds /\ \A b \in EgLive : eg_flow[b].fd # f
  BY <1>5, Zenon DEF FreeFds
<1> QED
  BY <1>6, CtxFlow, Zenon DEF EgLive

\* A handler record before its flow exists.
Unborn ==
    [addr : EgAddrs, sid : EgStreams, num : EgFds, flow : {NoEgFlow}, stream : Stream,
     reg : Registration, conn : Int, fds : Int, opened : Nat, erring : Failure,
     errno : {"EAGAIN", "other"}]

\* An unused stream, and the same opened.
LEMMA FreshStream ==
    ASSUME NEW st, st = [NoStream EXCEPT !.open = TRUE]
    PROVE  /\ NoStream \in Stream /\ NoStream.slot = "none" /\ NoStream.open = FALSE
           /\ st \in Stream /\ st.open = TRUE /\ st.slot = "none" /\ st.nsent = 0
           /\ st.body = <<>> /\ st.fin = FALSE /\ st.up = <<>> /\ st.up_fin = FALSE
<1>1. 0 \in Nat /\ 0 \in Int /\ <<>> \in Units
  BY EmptyIs DEF Units
<1>2. PICK n : n = NoStream
  BY Zenon
<1>3. n \in Stream
  BY <1>1, <1>2, Flagged, Zenon DEF NoStream, Stream
<1>4. /\ n.open = FALSE /\ n.slot = "none" /\ n.nsent = 0 /\ n.body = <<>>
      /\ n.fin = FALSE /\ n.up = <<>> /\ n.up_fin = FALSE
  BY <1>2 DEF NoStream
<1>5. st = [n EXCEPT !.open = TRUE]
  BY <1>2, Zenon
<1>6. /\ st \in Stream /\ st.open = TRUE /\ st.slot = n.slot /\ st.nsent = n.nsent
      /\ st.body = n.body /\ st.fin = n.fin /\ st.up = n.up /\ st.up_fin = n.up_fin
  BY <1>3, <1>5, Flagged, Zenon DEF Stream
<1> QED
  BY <1>2, <1>3, <1>4, <1>6, Zenon

\* A new flow is sound; its descriptor is not polled yet.
LEMMA NewWhole ==
    ASSUME EgInv, NEW a \in EgAddrs, a \notin EgLive, NEW s \in EgStreams, NEW f \in EgFds,
           NEW st, st = [NoStream EXCEPT !.open = TRUE],
           NEW p, p = flow_new([At(a, s, f) EXCEPT !.stream = st])
    PROVE  /\ Whole(p) /\ p.flow.state = "CONNECTING" /\ p.addr = a /\ p.sid = s /\ p.num = f
           /\ p.conn = eg_conn_count + 1 /\ p.fds = eg_fd_count + 1 /\ p.erring = eg_erring
<1>1. eg_flow[a] = NoEgFlow
  <2>1. eg_flow[a] \in Flow \cup {NoEgFlow} /\ ~eg_flow[a].live
    BY Zenon DEF EgInv, EgTypeOK, EgLive
  <2> QED
    BY <2>1, DeadOrAlive, Zenon
<1>2. PICK h : h = At(a, s, f)
  BY Zenon
<1>3. eg_conn_count \in Int /\ eg_fd_count \in Int
  BY LiveCounted
<1>4. h \in Unborn
  BY <1>1, <1>2, <1>3, Zenon DEF At, Unborn, EgInv, EgTypeOK
<1>5. /\ h.addr = a /\ h.sid = s /\ h.num = f /\ h.conn = eg_conn_count /\ h.fds = eg_fd_count
      /\ h.erring = eg_erring /\ h.opened = eg_opened
  BY <1>2, Zenon DEF At
<1>6. PICK q : q = [h EXCEPT !.stream = st]
  BY Zenon
<1>7. /\ st \in Stream /\ st.open = TRUE /\ st.nsent = 0
      /\ st.body = <<>> /\ st.fin = FALSE /\ st.up = <<>> /\ st.up_fin = FALSE
  BY FreshStream, Zenon
<1>8. /\ q \in Unborn /\ q.stream = st /\ q.addr = h.addr /\ q.sid = h.sid /\ q.num = h.num
      /\ q.conn = h.conn /\ q.fds = h.fds /\ q.erring = h.erring /\ q.opened = h.opened
  BY <1>4, <1>6, <1>7, Zenon DEF Unborn
<1>9. PICK c : c = q.conn + 1
  BY Zenon
<1>10. PICK d : d = q.fds + 1
  BY Zenon
<1>11. PICK o : o = q.opened + 1
  BY Zenon
<1>12. c \in Int /\ d \in Int /\ o \in Nat
  <2>1. q.conn \in Int /\ q.fds \in Int /\ q.opened \in Nat
    BY <1>8, Zenon DEF Unborn
  <2> QED
    BY <1>9, <1>10, <1>11, <2>1
<1>13. PICK y : y = [st EXCEPT !.slot = a]
  BY Zenon
<1>14. /\ y \in Stream /\ y.slot = a /\ y.open = TRUE /\ y.nsent = 0
       /\ y.body = <<>> /\ y.fin = FALSE /\ y.up = <<>> /\ y.up_fin = FALSE
  BY <1>7, <1>13, Zenon DEF Stream
<1>15. PICK g : g = [live |-> TRUE, stream |-> q.sid, fd |-> q.num, serial |-> q.opened + 1,
                 state |-> "CONNECTING", expired |-> FALSE,
                 target |-> <<>>, downlink_stash |-> <<>>, downlink_paused |-> FALSE,
                 fin_received |-> FALSE, shutdown_done |-> FALSE,
                 inbox |-> <<>>, nrecv |-> 0, target_eof |-> FALSE,
                 uplink_stash |-> <<>>, uplink_withheld |-> FALSE,
                 eof_seen |-> FALSE, uplink_fin_sent |-> FALSE]
  BY Zenon
<1>16. 0 \in Nat /\ <<>> \in Units
  BY EmptyIs DEF Units
<1>17. q.sid = s /\ q.num = f /\ q.addr = a
  BY <1>5, <1>8, Zenon
<1>18. g \in Flow
  BY <1>11, <1>12, <1>15, <1>16, <1>17, Flagged, Zenon DEF Flow
<1>19. /\ g.stream = s /\ g.fd = f /\ g.state = "CONNECTING" /\ g.target = <<>>
       /\ g.downlink_stash = <<>> /\ g.downlink_paused = FALSE /\ g.fin_received = FALSE
       /\ g.shutdown_done = FALSE /\ g.inbox = <<>> /\ g.nrecv = 0 /\ g.uplink_stash = <<>>
       /\ g.uplink_withheld = FALSE /\ g.eof_seen = FALSE
  BY <1>15, <1>17, Zenon
<1>20. p = [q EXCEPT !.flow = g, !.stream.slot = q.addr, !.conn = @ + 1, !.fds = @ + 1,
                     !.opened = @ + 1]
  BY <1>2, <1>6, <1>15, Zenon DEF flow_new
<1>21. p = [q EXCEPT !.flow = g, !.stream = y, !.conn = c, !.fds = d, !.opened = o]
  BY <1>8, <1>9, <1>10, <1>11, <1>13, <1>17, <1>20, Zenon
<1>22. /\ p \in Handler /\ p.flow = g /\ p.stream = y /\ p.conn = c /\ p.fds = d
       /\ p.addr = q.addr /\ p.sid = q.sid /\ p.num = q.num /\ p.erring = q.erring
  BY <1>8, <1>12, <1>14, <1>18, <1>21, Zenon DEF Unborn, Handler
<1>23. Joined(<<>>, <<>>, <<>>, 0)
  BY DEF Joined, Numbered
<1>24. Down(g, y) /\ Up(g, y)
  BY <1>14, <1>19, <1>23, Zenon DEF Down, Up
<1>25. Whole(p)
  <2>1. p.flow.stream = p.sid /\ p.flow.fd = p.num /\ p.stream.slot = p.addr /\ p.stream.open
    BY <1>14, <1>17, <1>19, <1>22
  <2>2. Down(p.flow, p.stream) /\ Up(p.flow, p.stream)
    BY <1>22, <1>24, Zenon
  <2> QED
    BY <1>22, <2>1, <2>2, Zenon DEF Whole
<1> QED
  BY <1>5, <1>8, <1>9, <1>10, <1>17, <1>19, <1>22, <1>25, Zenon

\* A flow that starts its life sound.
LEMMA BornStep ==
    ASSUME EgInv, NEW a \in EgAddrs, a \notin EgLive,
           NEW s \in EgStreams, eg_stream[s].slot = "none",
           NEW f \in EgFds, eg_fd[f].ctx = "none",
           NEW z, Whole(z), Polled(z), z.addr = a, z.sid = s, z.num = f,
           z.conn = eg_conn_count + 1, z.fds = eg_fd_count + 1, Commit(z)
    PROVE  EgInv' /\ eg_erring' = z.erring
<1>1. Alive(z) /\ ~eg_flow[a].live
  BY Zenon DEF Alive, EgLive
<1>2. eg_stream[s].slot \in {a, "none"} /\ eg_fd[f].ctx \in {a, "none"}
  BY Zenon
<1>3. EgTypeOK' /\ EgLinked' /\ EgLive' = EgLive \cup {a}
  BY <1>1, <1>2, CommitLinks, Zenon
<1>4. Cardinality(EgLive \cup {a}) = Cardinality(EgLive) + 1
  BY LiveCounted, Zenon DEF Counting
<1>5. EgCounted'
  BY <1>3, <1>4, LiveCounted, Zenon DEF EgCounted, Commit
<1> QED
  BY <1>3, <1>5, Zenon DEF EgInv, Commit

\* A flow whose connect fails at once.
LEMMA StillbornStep ==
    ASSUME EgInv, NEW a \in EgAddrs, a \notin EgLive,
           NEW s \in EgStreams, eg_stream[s].slot = "none",
           NEW f \in EgFds, eg_fd[f].ctx = "none",
           NEW z, Dead(z), z.addr = a, z.sid = s, z.num = f,
           z.conn = eg_conn_count, z.fds = eg_fd_count, Commit(z)
    PROVE  EgInv' /\ eg_erring' = z.erring
<1>1. ~eg_flow[a].live
  BY Zenon DEF EgLive
<1>2. eg_stream[s].slot \in {a, "none"} /\ eg_fd[f].ctx \in {a, "none"}
  BY Zenon
<1>3. EgTypeOK' /\ EgLinked' /\ EgLive' = EgLive \ {a}
  BY <1>1, <1>2, CommitLinks, Zenon
<1>4. EgLive' = EgLive
  BY <1>3, Zenon
<1>5. EgCounted'
  BY <1>4, LiveCounted, Zenon DEF EgCounted, Commit
<1> QED
  BY <1>3, <1>5, Zenon DEF EgInv, Commit

\* A stream with its answer.
LEMMA Responded ==
    ASSUME NEW st \in Stream, NEW status \in Int, NEW y, y = svr_tcp_egress_respond(st, status)
    PROVE  y \in Stream /\ y.slot = st.slot /\ y.open = st.open
BY Zenon DEF Stream, svr_tcp_egress_respond

\* svr_tcp_egress_start_connect: a refusal, or a flow that is connected,
\* connecting or already gone.
LEMMA StartConnectStep ==
    ASSUME EgInv, NEW s \in EgStreams, eg_stream[s] = NoStream,
           NEW st, st = [NoStream EXCEPT !.open = TRUE], svr_tcp_egress_start_connect(s, st)
    PROVE  EgInv' /\ eg_erring' = eg_erring
<1>1. st \in Stream /\ st.open /\ st.slot = "none" /\ eg_stream[s].slot = "none"
  BY FreshStream, Zenon
<1>2. PICK f : f = CHOOSE g \in FreeFds : \A h \in FreeFds : g <= h
  BY Zenon
<1>3. ASSUME NEW status \in Int, CommitStream(s, svr_tcp_egress_respond(st, status))
      PROVE  EgInv' /\ eg_erring' = eg_erring
  <2>1. PICK y : y = svr_tcp_egress_respond(st, status)
    BY Zenon
  <2>2. y \in Stream /\ y.slot = "none" /\ y.open
    BY <1>1, <2>1, Responded, Zenon
  <2>3. CommitStream(s, y)
    BY <1>3, <2>1, Zenon
  <2> QED
    BY <1>1, <2>2, <2>3, StreamStep, Zenon
<1>4. ASSUME NEW a \in EgAddrs \ EgLive,
             NEW p, p = flow_new([At(a, s, f) EXCEPT !.stream = st]),
             \/ Commit(svr_tcp_egress_on_connected(p, 0))
             \/ Commit([svr_tcp_egress_fail_connect(p, 502) EXCEPT !.errno = "other"])
             \/ Commit([svr_egress_fd_register(p, FALSE, TRUE) EXCEPT !.errno = "other"])
      PROVE  EgInv' /\ eg_erring' = eg_erring
  <2>1. f \in EgFds /\ eg_fd[f].ctx = "none"
    BY <1>2, <1>4, FreeFd, Zenon
  <2>2. /\ Whole(p) /\ p.flow.state = "CONNECTING" /\ p.addr = a /\ p.sid = s /\ p.num = f
        /\ p.conn = eg_conn_count + 1 /\ p.fds = eg_fd_count + 1 /\ p.erring = eg_erring
    <3>1. a \in EgAddrs /\ a \notin EgLive
      BY <1>4, Zenon
    <3> QED
      BY <1>4, <2>1, <3>1, NewWhole
  <2>3. p \in Handler /\ p.stream.open
    BY <2>2, Zenon DEF Whole
  <2>4. CASE Commit(svr_tcp_egress_on_connected(p, 0))
    <3>1. PICK z : z = svr_tcp_egress_on_connected(p, 0)
      BY Zenon
    <3>2. 0 \in Nat
      OBVIOUS
    <3>3. Whole(z) /\ Polled(z) /\ Outer(p, z) /\ z.erring = p.erring
      BY <2>2, <3>1, <3>2, OnConnectedWhole, Zenon
    <3>4. /\ z.addr = a /\ z.sid = s /\ z.num = f /\ z.conn = eg_conn_count + 1
          /\ z.fds = eg_fd_count + 1 /\ Commit(z)
      BY <2>2, <2>4, <3>1, <3>3, Zenon DEF Outer
    <3> QED
      BY <1>1, <2>1, <2>2, <3>3, <3>4, BornStep, Zenon
  <2>5. CASE Commit([svr_tcp_egress_fail_connect(p, 502) EXCEPT !.errno = "other"])
    <3>1. PICK d : d = svr_tcp_egress_fail_connect(p, 502)
      BY Zenon
    <3>2. 502 \in Int
      OBVIOUS
    <3>3. Gone(p, d)
      BY <2>3, <3>1, <3>2, FailConnectGone, Zenon
    <3>4. PICK z : z = [d EXCEPT !.errno = "other"]
      BY Zenon
    <3>5. Gone(p, z)
      BY <3>3, <3>4, GoneAgain, Zenon
    <3>6. Dead(z)
      BY <2>3, <3>5, Zenon DEF Gone, Ended, Dead
    <3>7. z.conn = eg_conn_count /\ z.fds = eg_fd_count
      <4>1. z.conn = p.conn - 1 /\ z.fds = p.fds - 1
        BY <3>5, Zenon DEF Gone
      <4> QED
        BY <2>2, <4>1, LiveCounted
    <3>8. Commit(z) /\ z.addr = a /\ z.sid = s /\ z.num = f /\ z.erring = eg_erring
      BY <2>2, <2>5, <3>1, <3>4, <3>5, Zenon DEF Gone
    <3> QED
      BY <1>1, <2>1, <3>6, <3>7, <3>8, StillbornStep, Zenon
  <2>6. CASE Commit([svr_egress_fd_register(p, FALSE, TRUE) EXCEPT !.errno = "other"])
    <3>1. PICK b : b = [ctx |-> p.addr, r |-> FALSE, w |-> TRUE]
      BY Zenon
    <3>2. b \in Registration
      BY <2>3, <3>1, Flagged, Zenon DEF Registration, Handler
    <3>3. PICK u : u = [p EXCEPT !.reg = b]
      BY Zenon
    <3>4. /\ u \in Handler /\ u.flow = p.flow /\ u.stream = p.stream /\ u.reg = b
          /\ u.erring = p.erring /\ Outer(p, u)
      BY <2>3, <3>2, <3>3, Zenon DEF Handler, Outer
    <3>5. PICK z : z = SetErrno(u, "other")
      BY Zenon
    <3>6. /\ z \in Handler /\ z.flow = u.flow /\ z.stream = u.stream /\ z.reg = u.reg
          /\ z.erring = u.erring /\ Outer(u, z)
      BY <3>4, <3>5, RebuiltErrno
    <3>7. Outer(p, z) /\ z.flow = p.flow /\ z.stream = p.stream /\ z.reg = b /\ z.erring = p.erring
      BY <3>4, <3>6, OuterChain, Zenon
    <3>8. Whole(z)
      BY <2>2, <3>6, <3>7, Zenon DEF Whole, Outer
    <3>9. Polled(z)
      BY <2>2, <3>1, <3>7, Zenon DEF Polled, Interest, Outer
    <3>10. /\ z.addr = a /\ z.sid = s /\ z.num = f /\ z.conn = eg_conn_count + 1
           /\ z.fds = eg_fd_count + 1
      BY <2>2, <3>7, Zenon DEF Outer
    <3>11. Commit(z)
      BY <2>6, <3>1, <3>3, <3>5, Zenon DEF svr_egress_fd_register, SetErrno
    <3> QED
      BY <1>1, <2>1, <2>2, <3>7, <3>8, <3>9, <3>10, <3>11, BornStep, Zenon
  <2> QED
    BY <1>4, <2>4, <2>5, <2>6, Zenon
<1>5. 500 \in Int /\ 503 \in Int
  OBVIOUS
<1>6. CASE \/ CommitStream(s, svr_tcp_egress_respond(st, 500))
           \/ CommitStream(s, svr_tcp_egress_respond(st, 503))
  BY <1>3, <1>5, <1>6, Zenon
<1>7. CASE \E a \in EgAddrs \ EgLive :
             \/ Commit(svr_tcp_egress_on_connected(flow_new([At(a, s, f) EXCEPT !.stream = st]), 0))
             \/ Commit([svr_tcp_egress_fail_connect(flow_new([At(a, s, f) EXCEPT !.stream = st]), 502)
                         EXCEPT !.errno = "other"])
             \/ Commit([svr_egress_fd_register(flow_new([At(a, s, f) EXCEPT !.stream = st]), FALSE, TRUE)
                         EXCEPT !.errno = "other"])
  <2>1. PICK a \in EgAddrs \ EgLive :
             \/ Commit(svr_tcp_egress_on_connected(flow_new([At(a, s, f) EXCEPT !.stream = st]), 0))
             \/ Commit([svr_tcp_egress_fail_connect(flow_new([At(a, s, f) EXCEPT !.stream = st]), 502)
                         EXCEPT !.errno = "other"])
             \/ Commit([svr_egress_fd_register(flow_new([At(a, s, f) EXCEPT !.stream = st]), FALSE, TRUE)
                         EXCEPT !.errno = "other"])
    BY <1>7, Zenon
  <2>2. PICK p : p = flow_new([At(a, s, f) EXCEPT !.stream = st])
    BY Zenon
  <2> QED
    BY <1>4, <2>1, <2>2, Zenon
<1> QED
  BY <1>2, <1>6, <1>7, Zenon DEF svr_tcp_egress_start_connect

\* svr_tcp_egress_on_request refuses the request or connects.
LEMMA RequestStep ==
    ASSUME EgInv, NEW s \in EgStreams, svr_tcp_egress_on_request(s)
    PROVE  EgInv' /\ eg_erring' = eg_erring
<1>1. eg_stream[s] = NoStream
  BY Zenon DEF svr_tcp_egress_on_request, EgInv, EgLinked
<1>2. PICK st : st = [NoStream EXCEPT !.open = TRUE]
  BY Zenon
<1>3. st \in Stream /\ st.open /\ st.slot = "none" /\ eg_stream[s].slot = "none"
  BY <1>1, <1>2, FreshStream, Zenon
<1>4. \/ \E status \in {400, 403} : CommitStream(s, svr_tcp_egress_respond(st, status))
      \/ svr_tcp_egress_start_connect(s, st)
  <2>1. \/ \E status \in {400, 403} :
             CommitStream(s, svr_tcp_egress_respond([eg_stream[s] EXCEPT !.open = TRUE], status))
        \/ svr_tcp_egress_start_connect(s, [eg_stream[s] EXCEPT !.open = TRUE])
    BY Zenon DEF svr_tcp_egress_on_request
  <2>2. st = [eg_stream[s] EXCEPT !.open = TRUE]
    BY <1>1, <1>2, Zenon
  <2> QED
    BY <2>1, <2>2
<1>5. CASE svr_tcp_egress_start_connect(s, st)
  BY <1>1, <1>2, <1>5, StartConnectStep, Zenon
<1>6. CASE \E status \in {400, 403} : CommitStream(s, svr_tcp_egress_respond(st, status))
  <2>1. PICK status \in {400, 403} : CommitStream(s, svr_tcp_egress_respond(st, status))
    BY <1>6, Zenon
  <2>2. PICK n \in Int : n = status
    BY <2>1
  <2>3. PICK y : y = svr_tcp_egress_respond(st, n)
    BY Zenon
  <2>4. y \in Stream /\ y.slot = "none" /\ y.open
    BY <1>3, <2>2, <2>3, Responded
  <2>5. CommitStream(s, y)
    BY <2>1, <2>2, <2>3, Zenon
  <2> QED
    BY <1>3, <2>4, <2>5, StreamStep, Zenon
<1> QED
  BY <1>4, <1>5, <1>6, Zenon

\* The client's next unit or its FIN, before anyone reads it.
LEMMA BodyArrives ==
    ASSUME NEW y \in Stream, ~y.fin, NEW fin \in BOOLEAN,
           NEW st, st = IF fin THEN [y EXCEPT !.fin = TRUE]
                        ELSE [y EXCEPT !.nsent = @ + 1, !.body = Append(@, y.nsent + 1)]
    PROVE  /\ st \in Stream /\ SameStream(y, st) /\ StreamUp(y, st)
           /\ \A x \in Flow : Down(x, y) => Down(x, st)
<1>1. CASE fin
  <2>1. st = [y EXCEPT !.fin = TRUE]
    BY <1>1, Zenon
  <2>2. /\ st \in Stream /\ SameStream(y, st) /\ StreamUp(y, st) /\ st.nsent = y.nsent
        /\ st.body = y.body /\ st.fin = TRUE
    BY <2>1, Flagged, Zenon DEF Stream, SameStream, StreamUp
  <2>3. ASSUME NEW x \in Flow, Down(x, y) PROVE Down(x, st)
    BY <2>2, <2>3, Zenon DEF Down
  <2> QED
    BY <2>2, <2>3, Zenon
<1>2. CASE ~fin
  <2>1. y.nsent \in Nat /\ y.body \in Units
    BY Zenon DEF Stream
  <2>2. PICK n : n = y.nsent + 1
    BY Zenon
  <2>3. PICK b : b = Append(y.body, n)
    BY Zenon
  <2>4. n \in Nat
    BY <2>1, <2>2
  <2>5. b \in Units
    <3>1. y.body \in Seq(Nat)
      BY <2>1, Zenon DEF Units
    <3>2. b \in Seq(Nat)
      BY <2>3, <2>4, <3>1, AppendIs, Zenon
    <3> QED
      BY <3>2, Zenon DEF Units
  <2>6. st = [y EXCEPT !.nsent = n, !.body = b]
    BY <1>2, <2>2, <2>3, Zenon
  <2>7. /\ st \in Stream /\ SameStream(y, st) /\ StreamUp(y, st) /\ st.nsent = n
        /\ st.body = b /\ st.fin = y.fin
    BY <2>4, <2>5, <2>6, Zenon DEF Stream, SameStream, StreamUp
  <2>8. ASSUME NEW x \in Flow, Down(x, y) PROVE Down(x, st)
    <3>1. x.target \in Units /\ x.downlink_stash \in Units
      BY Zenon DEF Flow
    <3>2. Joined(x.target, x.downlink_stash, y.body, y.nsent)
      BY <2>8, Zenon DEF Down
    <3>3. Joined(x.target, x.downlink_stash, b, n)
      BY <2>1, <2>2, <2>3, <3>1, <3>2, JoinedGrows, Zenon
    <3> QED
      BY <2>7, <2>8, <3>3, Zenon DEF Down
  <2> QED
    BY <2>7, <2>8, Zenon
<1> QED
  BY <1>1, <1>2, Zenon

\* A client's unit or FIN while the connect is under way changes the stream only.
LEMMA StreamOnly ==
    ASSUME EgInv, NEW a \in EgAddrs, eg_flow[a].live, NEW s, s = eg_flow[a].stream,
           NEW st, CommitStream(s, st)
    PROVE  Commit(SetStream(Of(a), st))
<1>1. PICK q : q = Of(a)
  BY Zenon
<1>2. /\ Whole(q) /\ q.addr = a /\ q.sid = s /\ q.num = eg_flow[a].fd
      /\ q.conn = eg_conn_count /\ q.fds = eg_fd_count /\ q.opened = eg_opened
      /\ q.erring = eg_erring /\ q.flow = eg_flow[a]
  BY <1>1, OfWhole, Zenon
<1>3. q.reg = eg_fd[eg_flow[a].fd] /\ q.errno = eg_errno
  BY <1>1, Zenon DEF Of, At
<1>4. q \in Handler
  BY <1>2, Zenon DEF Whole
<1>5. PICK z : z = SetStream(q, st)
  BY Zenon
<1>6. /\ z.addr = q.addr /\ z.sid = q.sid /\ z.num = q.num /\ z.conn = q.conn /\ z.fds = q.fds
      /\ z.opened = q.opened /\ z.erring = q.erring /\ z.errno = q.errno /\ z.flow = q.flow
      /\ z.reg = q.reg /\ z.stream = st
  BY <1>4, <1>5, Zenon DEF SetStream, Handler
<1>7. [eg_flow EXCEPT ![a] = eg_flow[a]] = eg_flow
  BY DEF EgInv, EgTypeOK
<1>8. [eg_fd EXCEPT ![eg_flow[a].fd] = eg_fd[eg_flow[a].fd]] = eg_fd
  BY DEF EgInv, EgTypeOK
<1>9. Commit(z)
  <2>1. z.sid = s /\ z.addr = a /\ z.num = eg_flow[a].fd /\ z.flow = eg_flow[a]
        /\ z.reg = eg_fd[eg_flow[a].fd] /\ z.stream = st
    BY <1>2, <1>3, <1>6, Zenon
  <2>2. eg_stream' = [eg_stream EXCEPT ![z.sid] = z.stream]
    BY <2>1, Zenon DEF CommitStream
  <2>3. eg_flow' = [eg_flow EXCEPT ![z.addr] = z.flow]
    BY <1>7, <2>1, Zenon DEF CommitStream
  <2>4. eg_fd' = [eg_fd EXCEPT ![z.num] = z.reg]
    BY <1>8, <2>1, Zenon DEF CommitStream
  <2> QED
    BY <1>2, <1>3, <1>6, <2>2, <2>3, <2>4, Zenon DEF Commit, CommitStream
<1> QED
  BY <1>1, <1>5, <1>9, Zenon

\* svr_tcp_egress_on_body passes the body on, or aborts the flow at once: the
\* callback runs inside the engine.
LEMMA BodyStep ==
    ASSUME EgInv, NEW s \in EgStreams, NEW fin \in BOOLEAN, svr_tcp_egress_on_body(s, fin)
    PROVE  EgInv' /\ eg_erring' = eg_erring
<1>0. PICK st, a :
        /\ st = IF fin THEN [eg_stream[s] EXCEPT !.fin = TRUE]
                ELSE [eg_stream[s] EXCEPT !.nsent = @ + 1,
                                          !.body = Append(@, eg_stream[s].nsent + 1)]
        /\ a = eg_stream[s].slot
        /\ IF a = "none" \/ eg_flow[a].state # "ACTIVE" THEN CommitStream(s, st)
           ELSE \/ \E room \in 0..eg_case.body :
                     Commit(svr_tcp_egress_drain_body([Of(a) EXCEPT !.stream = st], room))
                \/ Commit([svr_tcp_egress_on_relay_error([Of(a) EXCEPT !.stream = st], TRUE)
                             EXCEPT !.errno = "other"])
  BY Zenon DEF svr_tcp_egress_on_body
<1>1. st = IF fin THEN [eg_stream[s] EXCEPT !.fin = TRUE]
           ELSE [eg_stream[s] EXCEPT !.nsent = @ + 1, !.body = Append(@, eg_stream[s].nsent + 1)]
  BY <1>0, Zenon
<1>2. a = eg_stream[s].slot
  BY <1>0, Zenon
<1>3. eg_stream[s].open /\ ~eg_stream[s].fin /\ eg_stream[s] \in Stream
  BY Zenon DEF svr_tcp_egress_on_body, EgInv, EgTypeOK
<1>4. /\ st \in Stream /\ SameStream(eg_stream[s], st) /\ StreamUp(eg_stream[s], st)
      /\ \A x \in Flow : Down(x, eg_stream[s]) => Down(x, st)
  BY <1>1, <1>3, BodyArrives, Zenon
<1>5. st.open /\ st.slot = a
  BY <1>2, <1>3, <1>4, Zenon DEF SameStream
<1>6. IF a = "none" \/ eg_flow[a].state # "ACTIVE" THEN CommitStream(s, st)
      ELSE \/ \E room \in 0..eg_case.body :
                Commit(svr_tcp_egress_drain_body([Of(a) EXCEPT !.stream = st], room))
           \/ Commit([svr_tcp_egress_on_relay_error([Of(a) EXCEPT !.stream = st], TRUE)
                        EXCEPT !.errno = "other"])
  BY <1>0, Zenon
<1>7. CASE a = "none"
  BY <1>2, <1>4, <1>5, <1>6, <1>7, StreamStep, Zenon
<1>8. CASE a # "none"
  <2>1. a \in EgAddrs /\ eg_flow[a].live /\ eg_flow[a].stream = s
    BY <1>2, <1>8, SlotFlow, Zenon
  <2>2. PICK h : h = Of(a)
    BY Zenon
  <2>3. /\ Whole(h) /\ Polled(h) /\ h.stream = eg_stream[s] /\ h.flow = eg_flow[a]
        /\ h.erring = eg_erring
    BY <2>1, <2>2, OfWhole, Zenon
  <2>4. h \in Handler /\ h.flow \in Flow
    BY <2>3, WholeParts, Zenon
  <2>5. PICK q : q = SetStream(h, st)
    BY Zenon
  <2>6. /\ q \in Handler /\ q.flow = h.flow /\ q.stream = st /\ q.reg = h.reg
        /\ q.erring = h.erring /\ Outer(h, q)
    BY <1>4, <2>4, <2>5, RebuiltStream
  <2>7. Down(h.flow, st) /\ Up(h.flow, st)
    <3>1. Down(h.flow, eg_stream[s]) /\ Up(h.flow, eg_stream[s])
      BY <2>3, Zenon DEF Whole
    <3>2. FlowUp(h.flow, h.flow)
      BY Zenon DEF FlowUp
    <3> QED
      BY <1>4, <2>4, <3>1, <3>2, UpKept, Zenon
  <2>8. Whole(q)
    <3>1. SameFlow(h.flow, q.flow) /\ SameStream(h.stream, q.stream)
      BY <1>4, <2>3, <2>6, Zenon DEF SameFlow
    <3> QED
      BY <2>3, <2>6, <2>7, <3>1, WholeAgain, Zenon
  <2>9. Polled(q)
    BY <2>3, <2>6, Zenon DEF Polled, Outer
  <2>10. CASE eg_flow[a].state # "ACTIVE"
    <3>1. CommitStream(s, st)
      BY <1>6, <2>10, Zenon
    <3>2. Commit(q)
      BY <2>1, <2>2, <2>5, <3>1, StreamOnly, Zenon
    <3>3. EgInv' /\ eg_erring' = q.erring
      BY <2>1, <2>2, <2>6, <2>8, <2>9, <3>2, AliveStep, Zenon
    <3> QED
      BY <2>3, <2>6, <3>3, Zenon
  <2>11. CASE eg_flow[a].state = "ACTIVE"
    <3>1. q.flow.state = "ACTIVE"
      BY <2>3, <2>6, <2>11, Zenon
    <3>2. \/ \E room \in 0..eg_case.body : Commit(svr_tcp_egress_drain_body(q, room))
          \/ Commit([svr_tcp_egress_on_relay_error(q, TRUE) EXCEPT !.errno = "other"])
      BY <1>6, <1>8, <2>2, <2>5, <2>11 DEF SetStream
    <3>3. CASE \E room \in 0..eg_case.body : Commit(svr_tcp_egress_drain_body(q, room))
      <4>1. PICK room \in 0..eg_case.body : Commit(svr_tcp_egress_drain_body(q, room))
        BY <3>3, Zenon
      <4>2. PICK z : z = svr_tcp_egress_drain_body(q, room)
        BY Zenon
      <4>3. room \in Nat
        BY <4>1
      <4>4. Whole(z) /\ Polled(z) /\ Outer(q, z) /\ z.erring = q.erring
        BY <2>8, <2>9, <3>1, <4>2, <4>3, DrainWhole, Zenon
      <4>5. Outer(h, z) /\ Commit(z)
        BY <2>6, <4>1, <4>2, <4>4, OuterChain, Zenon
      <4>6. EgInv' /\ eg_erring' = z.erring
        BY <2>1, <2>2, <4>4, <4>5, AliveStep, Zenon
      <4> QED
        BY <2>3, <2>6, <4>4, <4>6, Zenon
    <3>4. CASE Commit([svr_tcp_egress_on_relay_error(q, TRUE) EXCEPT !.errno = "other"])
      <4>1. PICK d : d = svr_tcp_egress_abort(q)
        BY Zenon
      <4>2. PICK z : z = [d EXCEPT !.errno = "other"]
        BY Zenon
      <4>3. Gone(q, z)
        BY <2>6, <4>1, <4>2, AbortGone, GoneAgain, Zenon
      <4>4. Commit(z)
        BY <3>4, <4>1, <4>2, Zenon DEF svr_tcp_egress_on_relay_error
      <4>5. Gone(h, z)
        BY <1>3, <1>5, <2>3, <2>6, <4>3, Zenon DEF Gone, Outer
      <4> QED
        BY <2>1, <2>2, <4>4, <4>5, GoneStep, Zenon
    <3> QED
      BY <3>2, <3>3, <3>4, Zenon
  <2> QED
    BY <2>10, <2>11, Zenon
<1> QED
  BY <1>7, <1>8, Zenon

\* svr_tcp_egress_on_h3_writable.
LEMMA WritableStep ==
    ASSUME EgInv, NEW s \in EgStreams, NEW room \in Nat, NEW ok \in BOOLEAN,
           svr_tcp_egress_on_h3_writable(s, room, ok)
    PROVE  EgInv' /\ eg_erring' = eg_erring
<1>1. PICK a : a = eg_stream[s].slot
  BY Zenon
<1>2. a # "none" /\ Commit(h3_writable(Of(a), room, ok))
  BY <1>1, Zenon DEF svr_tcp_egress_on_h3_writable
<1>3. a \in EgAddrs /\ eg_flow[a].live
  BY <1>1, <1>2, SlotFlow, Zenon
<1>4. PICK q : q = Of(a)
  BY Zenon
<1>5. Whole(q) /\ Polled(q) /\ q.erring = eg_erring
  BY <1>3, <1>4, OfWhole, Zenon
<1>6. PICK z : z = h3_writable(q, room, ok)
  BY Zenon
<1>7. Whole(z) /\ Polled(z) /\ Outer(q, z) /\ z.erring = q.erring /\ Commit(z)
  BY <1>2, <1>4, <1>5, <1>6, WritableWhole, Zenon
<1>8. EgInv' /\ eg_erring' = z.erring
  BY <1>3, <1>4, <1>7, AliveStep, Zenon
<1> QED
  BY <1>5, <1>7, <1>8, Zenon

\* A send that fails for good inside the engine ends the flow at once.
LEMMA SendFailsStep ==
    ASSUME EgInv, NEW s \in EgStreams, H3SendFails(s)
    PROVE  EgInv' /\ eg_erring' = eg_erring
<1>1. PICK a : a = eg_stream[s].slot
  BY Zenon
<1>2. a # "none" /\ Commit(svr_tcp_egress_on_relay_error(Of(a), TRUE))
  BY <1>1, Zenon DEF H3SendFails
<1>3. a \in EgAddrs /\ eg_flow[a].live
  BY <1>1, <1>2, SlotFlow, Zenon
<1>4. PICK q : q = Of(a)
  BY Zenon
<1>5. q \in Handler
  BY <1>3, <1>4, OfWhole, Zenon DEF Whole
<1>6. PICK z : z = svr_tcp_egress_abort(q)
  BY Zenon
<1>7. Gone(q, z) /\ Commit(z)
  BY <1>2, <1>4, <1>5, <1>6, AbortGone, Zenon DEF svr_tcp_egress_on_relay_error
<1> QED
  BY <1>3, <1>4, <1>7, GoneStep, Zenon

\* cb_request_closing_notify.
LEMMA ClosingStep ==
    ASSUME EgInv, NEW s \in EgStreams, cb_request_closing_notify(s)
    PROVE  EgInv' /\ eg_erring' = eg_erring
<1>1. PICK a : a = eg_stream[s].slot
  BY Zenon
<1>2. a # "none" /\ Commit([svr_tcp_egress_flow_destroy(Of(a)) EXCEPT !.stream.resp = -1])
  BY <1>1, Zenon DEF cb_request_closing_notify
<1>3. a \in EgAddrs /\ eg_flow[a].live
  BY <1>1, <1>2, SlotFlow, Zenon
<1>4. PICK q : q = Of(a)
  BY Zenon
<1>5. q \in Handler
  BY <1>3, <1>4, OfWhole, Zenon DEF Whole
<1>6. PICK d : d = svr_tcp_egress_flow_destroy(q)
  BY Zenon
<1>7. PICK z : z = [d EXCEPT !.stream.resp = -1]
  BY Zenon
<1>8. Gone(q, d)
  BY <1>5, <1>6, DestroyGone, Zenon
<1>9. Gone(q, z)
  BY <1>7, <1>8, GoneAgain, Zenon
<1>10. Commit(z)
  BY <1>2, <1>4, <1>6, <1>7, Zenon
<1> QED
  BY <1>3, <1>4, <1>9, <1>10, GoneStep, Zenon

\* The close notify frees the stream, and its flow if it has one.
LEMMA CloseStep ==
    ASSUME EgInv, NEW s \in EgStreams, egress_cb_request_close(s)
    PROVE  EgInv' /\ eg_erring' = eg_erring
<1>0. NoStream \in Stream /\ NoStream.slot = "none"
  BY FreshStream, Zenon
<1>1. PICK a : a = eg_stream[s].slot
  BY Zenon
<1>2. CASE a = "none"
  <2>1. CommitStream(s, NoStream)
    BY <1>1, <1>2, Zenon DEF egress_cb_request_close
  <2> QED
    BY <1>0, <1>1, <1>2, <2>1, StreamStep, Zenon
<1>3. CASE a # "none"
  <2>1. Commit([svr_tcp_egress_flow_destroy(Of(a)) EXCEPT !.stream = NoStream])
    BY <1>1, <1>3, Zenon DEF egress_cb_request_close
  <2>2. a \in EgAddrs /\ eg_flow[a].live
    BY <1>1, <1>3, SlotFlow, Zenon
  <2>3. PICK q : q = Of(a)
    BY Zenon
  <2>4. q \in Handler /\ q.erring = eg_erring
    BY <2>2, <2>3, OfWhole, Zenon DEF Whole
  <2>5. PICK d : d = svr_tcp_egress_flow_destroy(q)
    BY Zenon
  <2>6. PICK z : z = [d EXCEPT !.stream = NoStream]
    BY Zenon
  <2>7. Gone(q, d)
    BY <2>4, <2>5, DestroyGone, Zenon
  <2>8. d \in Ended
    BY <2>7, Zenon DEF Gone
  <2>9. /\ z \in Ended /\ z.stream = NoStream /\ z.addr = d.addr /\ z.sid = d.sid
        /\ z.num = d.num /\ z.conn = d.conn /\ z.fds = d.fds /\ z.erring = d.erring
    BY <1>0, <2>6, <2>8, Zenon DEF Ended
  <2>10. Dead(z)
    BY <1>0, <2>9, Zenon DEF Dead, Ended
  <2>11. /\ z.addr = q.addr /\ z.sid = q.sid /\ z.num = q.num /\ z.conn = q.conn - 1
         /\ z.fds = q.fds - 1 /\ z.erring = q.erring
    BY <2>7, <2>9, Zenon DEF Gone
  <2>12. Commit(z)
    BY <2>1, <2>3, <2>5, <2>6, Zenon
  <2>13. EgInv' /\ eg_erring' = z.erring
    BY <2>2, <2>3, <2>10, <2>11, <2>12, DeadStep, Zenon
  <2> QED
    BY <2>4, <2>11, <2>13, Zenon
<1> QED
  BY <1>2, <1>3, Zenon

\* A callback of the engine keeps the invariant and the failure mark.
LEMMA EngineStep ==
    ASSUME EgInv, EngineCallback
    PROVE  EgInv' /\ eg_erring' = eg_erring
<1>1. PICK s \in EgStreams :
        \/ svr_tcp_egress_on_request(s)
        \/ \E fin \in BOOLEAN : svr_tcp_egress_on_body(s, fin)
        \/ \E room \in 0..TCP_EGRESS_RELAY_CHUNK, ok \in BOOLEAN :
              svr_tcp_egress_on_h3_writable(s, room, ok)
        \/ H3SendFails(s)
        \/ cb_request_closing_notify(s)
        \/ egress_cb_request_close(s)
  BY Zenon DEF EngineCallback
<1>2. \A room \in 0..TCP_EGRESS_RELAY_CHUNK : room \in Nat
  OBVIOUS
<1> QED
  BY <1>1, <1>2, RequestStep, BodyStep, WritableStep, SendFailsStep, ClosingStep, CloseStep, Zenon

\* The target sends, closes, or lets time pass.
LEMMA TargetStep ==
    ASSUME EgInv, NEW a \in EgAddrs, TargetSends(a) \/ TargetCloses(a) \/ TimePasses(a)
    PROVE  EgInv' /\ eg_erring' = eg_erring
<1>1. eg_flow[a].live
  BY Zenon DEF TargetSends, TargetCloses, TimePasses
<1>2. PICK q : q = Of(a)
  BY Zenon
<1>3. Whole(q) /\ Polled(q) /\ q.flow = eg_flow[a] /\ q.erring = eg_erring
  BY <1>1, <1>2, OfWhole, Zenon
<1>4. q \in Handler /\ q.flow \in Flow
  BY <1>3, WholeParts, Zenon
<1>5. ASSUME NEW x \in Flow, SameFlow(q.flow, x), FlowDown(q.flow, x), Up(x, q.stream),
             x.state = q.flow.state, x.uplink_stash = q.flow.uplink_stash,
             x.eof_seen = q.flow.eof_seen, NEW z, z = SetFlow(q, x), Commit(z)
      PROVE  EgInv' /\ eg_erring' = eg_erring
  <2>1. /\ z \in Handler /\ z.flow = x /\ z.stream = q.stream /\ z.reg = q.reg
        /\ z.erring = q.erring /\ Outer(q, z)
    BY <1>4, <1>5, RebuiltFlow
  <2>2. Down(x, q.stream)
    <3>1. Down(q.flow, q.stream) /\ StreamDown(q.stream, q.stream)
      BY <1>3, Zenon DEF Whole, StreamDown
    <3> QED
      BY <1>5, <3>1, DownKept, Zenon
  <2>3. Whole(z)
    <3>1. SameStream(q.stream, z.stream) /\ Down(z.flow, z.stream) /\ Up(z.flow, z.stream)
      BY <1>5, <2>1, <2>2, Zenon DEF SameStream
    <3> QED
      BY <1>3, <1>5, <2>1, <3>1, WholeAgain, Zenon
  <2>4. Polled(z)
    <3>1. x.downlink_stash = q.flow.downlink_stash
      BY <1>5, Zenon DEF FlowDown
    <3> QED
      BY <1>3, <1>5, <2>1, <3>1, Zenon DEF Polled, Interest, Outer
  <2>5. EgInv' /\ eg_erring' = z.erring
    BY <1>1, <1>2, <1>5, <2>1, <2>3, <2>4, AliveStep, Zenon
  <2> QED
    BY <1>3, <2>1, <2>5, Zenon
<1>6. Up(q.flow, q.stream)
  BY <1>3, Zenon DEF Whole
<1>7. CASE TargetSends(a)
  <2>1. q.flow.nrecv \in Nat /\ q.flow.inbox \in Units /\ q.flow.uplink_stash \in Units
    BY <1>4, Zenon DEF Flow
  <2>2. q.stream.up \in Units
    BY <1>4, Zenon DEF Handler, Stream
  <2>3. PICK n : n = q.flow.nrecv + 1
    BY Zenon
  <2>4. PICK b : b = Append(q.flow.inbox, n)
    BY Zenon
  <2>5. n \in Nat
    BY <2>1, <2>3
  <2>6. Joined(q.stream.up, q.flow.uplink_stash, q.flow.inbox, q.flow.nrecv)
    BY <1>6, Zenon DEF Up
  <2>7. b \in Units /\ Joined(q.stream.up, q.flow.uplink_stash, b, n)
    BY <2>1, <2>2, <2>3, <2>4, <2>6, JoinedGrows, Zenon
  <2>8. PICK x : x = [q.flow EXCEPT !.inbox = b, !.nrecv = n]
    BY Zenon
  <2>9. /\ x \in Flow /\ SameFlow(q.flow, x) /\ FlowDown(q.flow, x) /\ x.state = q.flow.state
        /\ x.uplink_stash = q.flow.uplink_stash /\ x.eof_seen = q.flow.eof_seen
        /\ x.inbox = b /\ x.nrecv = n /\ x.target_eof = q.flow.target_eof
        /\ x.uplink_withheld = q.flow.uplink_withheld
    BY <1>4, <2>5, <2>7, <2>8, Zenon DEF Flow, SameFlow, FlowDown
  <2>10. ~q.flow.target_eof
    BY <1>3, <1>7, Zenon DEF TargetSends
  <2>11. Up(x, q.stream)
    BY <1>6, <2>7, <2>9, <2>10, Zenon DEF Up
  <2>12. PICK z : z = SetFlow(q, x)
    BY Zenon
  <2>13. z = [q EXCEPT !.flow.inbox = Append(@, eg_flow[a].nrecv + 1), !.flow.nrecv = @ + 1]
    <3>1. z = [q EXCEPT !.flow = x]
      BY <2>12, Zenon DEF SetFlow
    <3>2. x = [q.flow EXCEPT !.inbox = Append(@, eg_flow[a].nrecv + 1), !.nrecv = @ + 1]
      BY <1>3, <2>3, <2>4, <2>8, Zenon
    <3> QED
      BY <3>1, <3>2, Zenon
  <2>14. Commit(z)
    BY <1>2, <1>7, <2>13, Zenon DEF TargetSends
  <2> QED
    BY <1>5, <2>9, <2>11, <2>12, <2>14, Zenon
<1>8. CASE TargetCloses(a)
  <2>1. PICK x : x = [q.flow EXCEPT !.target_eof = TRUE]
    BY Zenon
  <2>2. /\ x \in Flow /\ SameFlow(q.flow, x) /\ FlowDown(q.flow, x) /\ x.state = q.flow.state
        /\ x.uplink_stash = q.flow.uplink_stash /\ x.eof_seen = q.flow.eof_seen
        /\ x.inbox = q.flow.inbox /\ x.nrecv = q.flow.nrecv /\ x.target_eof = TRUE
        /\ x.uplink_withheld = q.flow.uplink_withheld
    BY <1>4, <2>1, Flagged, Zenon DEF Flow, SameFlow, FlowDown
  <2>3. Up(x, q.stream)
    BY <1>6, <2>2, Zenon DEF Up
  <2>4. PICK z : z = SetFlow(q, x)
    BY Zenon
  <2>5. z = [q EXCEPT !.flow.target_eof = TRUE]
    BY <2>1, <2>4, Zenon DEF SetFlow
  <2>6. Commit(z)
    BY <1>2, <1>8, <2>5, Zenon DEF TargetCloses
  <2> QED
    BY <1>5, <2>2, <2>3, <2>4, <2>6, Zenon
<1>9. CASE TimePasses(a)
  <2>1. PICK x : x = [q.flow EXCEPT !.expired = TRUE]
    BY Zenon
  <2>2. /\ x \in Flow /\ SameFlow(q.flow, x) /\ FlowDown(q.flow, x) /\ x.state = q.flow.state
        /\ x.uplink_stash = q.flow.uplink_stash /\ x.eof_seen = q.flow.eof_seen
        /\ FlowUp(q.flow, x)
    BY <1>4, <2>1, Flagged, Zenon DEF Flow, SameFlow, FlowDown, FlowUp
  <2>3. Up(x, q.stream)
    BY <1>6, <2>2, UpKept, Zenon DEF StreamUp
  <2>4. PICK z : z = SetFlow(q, x)
    BY Zenon
  <2>5. z = [q EXCEPT !.flow.expired = TRUE]
    BY <2>1, <2>4, Zenon DEF SetFlow
  <2>6. Commit(z)
    BY <1>2, <1>9, <2>5, Zenon DEF TimePasses
  <2> QED
    BY <1>5, <2>2, <2>3, <2>4, <2>6, Zenon
<1> QED
  BY <1>7, <1>8, <1>9, Zenon

\* The flush has returned: the failed flow goes if it is still the same one.
LEMMA FlushStep ==
    ASSUME EgInv, FlushEnds
    PROVE  /\ EgInv'
           /\ \A b \in EgAddrs : eg_flow[b].live /\ ~eg_flow'[b].live =>
                                    eg_flow[b].serial = eg_erring.serial
<1>1. PICK a : a = eg_erring.addr
  BY Zenon
<1>2. eg_erring # NoEgErr /\ eg_erring \in Failure
  BY Zenon DEF FlushEnds, EgInv, EgTypeOK
<1>3. a \in EgAddrs
  BY <1>1, <1>2, Zenon DEF Failure
<1>4. CASE eg_flow[a].live /\ eg_flow[a].serial = eg_erring.serial
  <2>1. Commit([svr_tcp_egress_abort(Of(a)) EXCEPT !.erring = NoEgErr])
    BY <1>1, <1>4, Zenon DEF FlushEnds
  <2>2. PICK q : q = Of(a)
    BY Zenon
  <2>3. Whole(q) /\ q \in Handler /\ q.addr = a
    BY <1>3, <1>4, <2>2, OfWhole, Zenon DEF Whole
  <2>4. PICK d : d = svr_tcp_egress_abort(q)
    BY Zenon
  <2>5. Gone(q, d)
    BY <2>3, <2>4, AbortGone, Zenon
  <2>6. PICK z : z = [d EXCEPT !.erring = NoEgErr]
    BY Zenon
  <2>7. d \in Ended /\ NoEgErr \in Failure /\ d.stream.slot = "none" /\ d.stream.open
    BY <2>3, <2>5, Zenon DEF Gone, Failure, Whole
  <2>8. /\ z \in Ended /\ z.stream = d.stream /\ z.addr = d.addr /\ z.sid = d.sid
        /\ z.num = d.num /\ z.conn = d.conn /\ z.fds = d.fds
    BY <2>6, <2>7, Zenon DEF Ended
  <2>9. Dead(z)
    BY <2>7, <2>8, Zenon DEF Dead, Ended
  <2>10. /\ z.addr = q.addr /\ z.sid = q.sid /\ z.num = q.num /\ z.conn = q.conn - 1
         /\ z.fds = q.fds - 1
    BY <2>5, <2>8, Zenon DEF Gone
  <2>11. Commit(z)
    BY <2>1, <2>2, <2>4, <2>6, Zenon
  <2>12. EgInv'
    BY <1>3, <1>4, <2>2, <2>9, <2>10, <2>11, DeadStep, Zenon
  <2>13. \A b \in EgAddrs : b # a => eg_flow'[b] = eg_flow[b]
    <3>1. z.addr \in EgAddrs /\ z.sid \in EgStreams /\ z.num \in EgFds /\ z.addr = a
      BY <2>3, <2>8, <2>10, Zenon DEF Ended
    <3> QED
      BY <2>11, <3>1, CommitWrites, Zenon
  <2> QED
    BY <1>4, <2>12, <2>13, Zenon
<1>5. CASE ~(eg_flow[a].live /\ eg_flow[a].serial = eg_erring.serial)
  <2>1. /\ eg_erring' = NoEgErr /\ eg_case' = eg_case /\ eg_stream' = eg_stream
        /\ eg_flow' = eg_flow /\ eg_fd' = eg_fd /\ eg_conn_count' = eg_conn_count
        /\ eg_fd_count' = eg_fd_count /\ eg_opened' = eg_opened /\ eg_errno' = eg_errno
    BY <1>1, <1>5, Zenon DEF FlushEnds
  <2>2. EgTypeOK'
    BY <2>1, Zenon DEF EgInv, EgTypeOK, Failure
  <2>3. EgLinked' /\ EgCounted'
    BY <2>1, Zenon DEF EgInv, EgLinked, EgCounted, EgLive
  <2> QED
    BY <2>1, <2>2, <2>3, Zenon DEF EgInv
<1> QED
  BY <1>4, <1>5, Zenon

\* errno is set behind the handler's back.
LEMMA ErrnoWhole ==
    ASSUME NEW q, Whole(q), Polled(q), NEW z, z = [q EXCEPT !.errno = "other"]
    PROVE  Whole(z) /\ Polled(z) /\ Outer(q, z) /\ z.erring = q.erring
<1>1. q \in Handler
  BY Zenon DEF Whole
<1>2. z = SetErrno(q, "other")
  BY Zenon DEF SetErrno
<1>3. /\ z \in Handler /\ z.flow = q.flow /\ z.stream = q.stream /\ z.reg = q.reg
      /\ z.erring = q.erring /\ Outer(q, z)
  BY <1>1, <1>2, RebuiltErrno
<1> QED
  BY <1>3, Zenon DEF Whole, Polled, Outer

\* What a registered descriptor's readiness leads to.
LEMMA ReadyStep ==
    ASSUME EgInv, NEW f \in EgFds, svr_tcp_egress_fd_ready(f)
    PROVE  EgInv'
<1>1. PICK a, q, readable :
        /\ a = eg_fd[f].ctx /\ q = Of(a) /\ readable \in BOOLEAN /\ a # "none"
        /\ IF eg_flow[a].state = "CONNECTING"
           THEN \/ Commit(svr_tcp_egress_fail_connect(q, 502))
                \/ \E room \in 0..eg_case.body : Commit(svr_tcp_egress_on_connected(q, room))
                \/ Commit([svr_tcp_egress_on_relay_error(svr_tcp_egress_on_connected(q, 0), FALSE)
                             EXCEPT !.errno = "other"])
           ELSE \/ \E r \in {FALSE, readable}, w \in {FALSE, eg_fd[f].w},
                     droom \in 0..eg_case.body, uroom \in 0..eg_case.target, ok \in BOOLEAN :
                     /\ r \/ w
                     /\ Commit(svr_tcp_egress_on_relay_ready(q, r, w, droom, uroom, ok))
                \/ /\ eg_fd[f].r \/ eg_fd[f].w
                   /\ Commit([svr_tcp_egress_on_relay_error(q, FALSE) EXCEPT !.errno = "other"])
  BY Zenon DEF svr_tcp_egress_fd_ready
<1>2. a \in EgAddrs /\ eg_flow[a].live
  BY <1>1, CtxFlow, Zenon
<1>3. q = Of(a)
  BY <1>1, Zenon
<1>4. Whole(q) /\ Polled(q) /\ q.flow = eg_flow[a]
  BY <1>2, <1>3, OfWhole, Zenon
<1>5. q \in Handler /\ q.flow \in Flow
  BY <1>4, WholeParts, Zenon
<1>6. ASSUME NEW z, Whole(z), Polled(z), Outer(q, z), Commit(z) PROVE EgInv'
  BY <1>2, <1>3, <1>6, AliveStep, Zenon
<1>7. ASSUME NEW z, Gone(q, z), Commit(z) PROVE EgInv'
  BY <1>2, <1>3, <1>7, GoneStep, Zenon
<1>8. 0 \in Nat /\ 502 \in Int
  OBVIOUS
<1>9. (\A n \in 0..eg_case.body : n \in Nat) /\ (\A n \in 0..eg_case.target : n \in Nat)
  OBVIOUS
<1>10. CASE Commit(svr_tcp_egress_fail_connect(q, 502))
  BY <1>5, <1>7, <1>8, <1>10, FailConnectGone, Zenon
<1>11. CASE \E room \in 0..eg_case.body : Commit(svr_tcp_egress_on_connected(q, room))
  <2>1. PICK room \in 0..eg_case.body : Commit(svr_tcp_egress_on_connected(q, room))
    BY <1>11, Zenon
  <2>2. room \in Nat
    BY <1>9, Zenon
  <2>3. PICK z : z = svr_tcp_egress_on_connected(q, room)
    BY Zenon
  <2>4. Whole(z) /\ Polled(z) /\ Outer(q, z) /\ Commit(z)
    BY <1>4, <2>1, <2>2, <2>3, OnConnectedWhole, Zenon
  <2> QED
    BY <1>6, <2>4, Zenon
<1>12. CASE Commit([svr_tcp_egress_on_relay_error(svr_tcp_egress_on_connected(q, 0), FALSE)
                      EXCEPT !.errno = "other"])
  <2>1. PICK p : p = svr_tcp_egress_on_connected(q, 0)
    BY Zenon
  <2>2. Whole(p) /\ Polled(p) /\ Outer(q, p)
    BY <1>4, <1>8, <2>1, OnConnectedWhole, Zenon
  <2>3. PICK m : m = svr_tcp_egress_on_relay_error(p, FALSE)
    BY Zenon
  <2>4. Whole(m) /\ Polled(m) /\ Outer(p, m)
    BY <2>2, <2>3, FailureMarked, Zenon
  <2>5. PICK z : z = [m EXCEPT !.errno = "other"]
    BY Zenon
  <2>6. Whole(z) /\ Polled(z) /\ Outer(m, z)
    BY <2>4, <2>5, ErrnoWhole, Zenon
  <2>7. Outer(q, m)
    BY <2>2, <2>4, OuterChain, Zenon
  <2>8. Outer(q, z) /\ Commit(z)
    BY <1>12, <2>1, <2>3, <2>5, <2>6, <2>7, OuterChain, Zenon
  <2> QED
    BY <1>6, <2>6, <2>8, Zenon
<1>13. CASE \E r \in {FALSE, readable}, w \in {FALSE, eg_fd[f].w},
              droom \in 0..eg_case.body, uroom \in 0..eg_case.target, ok \in BOOLEAN :
              /\ r \/ w
              /\ Commit(svr_tcp_egress_on_relay_ready(q, r, w, droom, uroom, ok))
            /\ eg_flow[a].state # "CONNECTING"
  <2>1. PICK r \in {FALSE, readable}, w \in {FALSE, eg_fd[f].w},
             droom \in 0..eg_case.body, uroom \in 0..eg_case.target, ok \in BOOLEAN :
             Commit(svr_tcp_egress_on_relay_ready(q, r, w, droom, uroom, ok))
    BY <1>13, Zenon
  <2>2. eg_fd[f].w \in BOOLEAN
    BY Zenon DEF EgInv, EgTypeOK, Registration, Flags
  <2>3. r \in BOOLEAN /\ w \in BOOLEAN /\ droom \in Nat /\ uroom \in Nat
    BY <1>1, <1>9, <2>1, <2>2, Zenon
  <2>4. q.flow.state = "ACTIVE"
    BY <1>4, <1>5, <1>13, Zenon DEF Flow
  <2>5. PICK z : z = svr_tcp_egress_on_relay_ready(q, r, w, droom, uroom, ok)
    BY Zenon
  <2>6. Whole(z) /\ Polled(z) /\ Outer(q, z) /\ Commit(z)
    BY <1>4, <2>1, <2>3, <2>4, <2>5, ReadyWhole, Zenon
  <2> QED
    BY <1>6, <2>6, Zenon
<1>14. CASE Commit([svr_tcp_egress_on_relay_error(q, FALSE) EXCEPT !.errno = "other"])
  <2>1. PICK m : m = svr_tcp_egress_on_relay_error(q, FALSE)
    BY Zenon
  <2>2. Whole(m) /\ Polled(m) /\ Outer(q, m)
    BY <1>4, <2>1, FailureMarked, Zenon
  <2>3. PICK z : z = [m EXCEPT !.errno = "other"]
    BY Zenon
  <2>4. Whole(z) /\ Polled(z) /\ Outer(m, z)
    BY <2>2, <2>3, ErrnoWhole, Zenon
  <2>5. Outer(q, z) /\ Commit(z)
    BY <1>14, <2>1, <2>2, <2>3, <2>4, OuterChain, Zenon
  <2> QED
    BY <1>6, <2>4, <2>5, Zenon
<1> QED
  BY <1>1, <1>10, <1>11, <1>12, <1>13, <1>14, Zenon

\* The flows in A go, with their registrations and their streams' slots.
LEMMA EndStep ==
    ASSUME EgInv, NEW A \in SUBSET EgLive,
           eg_flow' \in [EgAddrs -> Flow \cup {NoEgFlow}],
           \A a \in EgAddrs : eg_flow'[a] = IF a \in A THEN NoEgFlow ELSE eg_flow[a],
           eg_fd' \in [EgFds -> Registration],
           \A f \in EgFds : eg_fd'[f] = IF eg_fd[f].ctx \in A THEN Unregistered ELSE eg_fd[f],
           eg_stream' \in [EgStreams -> Stream],
           \A s \in EgStreams : eg_stream[s].slot \in A =>
               eg_stream'[s].slot = "none" /\ (~eg_stream'[s].open => eg_stream'[s] = NoStream),
           \A s \in EgStreams : eg_stream[s].slot \notin A =>
               \/ eg_stream'[s] = eg_stream[s]
               \/ eg_stream[s].slot = "none" /\ eg_stream'[s] = NoStream,
           eg_conn_count' = eg_conn_count - Cardinality(A),
           eg_fd_count' = eg_fd_count - Cardinality(A),
           eg_case' = eg_case, eg_opened' = eg_opened, eg_erring' = eg_erring,
           eg_errno' = eg_errno
    PROVE  EgInv'
<1>1. EgTypeOK'
  BY Zenon DEF EgTypeOK, EgInv
<1>2. NoEgFlow.live = FALSE /\ Unregistered.ctx = "none" /\ NoStream.slot = "none"
  BY DEF NoEgFlow, Unregistered, NoStream
<1>3. \A a \in EgAddrs : eg_flow'[a].live => a \notin A /\ eg_flow'[a] = eg_flow[a]
  BY <1>2
<1>4. ASSUME NEW b \in EgAddrs, eg_flow'[b].live
      PROVE  Sound(b, eg_flow'[b], eg_stream'[eg_flow'[b].stream], eg_fd'[eg_flow'[b].fd])
  <2>1. b \notin A /\ eg_flow'[b] = eg_flow[b] /\ eg_flow[b].live
    BY <1>3, <1>4, Zenon
  <2>2. /\ eg_flow[b].stream \in EgStreams /\ eg_flow[b].fd \in EgFds
        /\ eg_stream[eg_flow[b].stream].slot = b /\ eg_fd[eg_flow[b].fd].ctx = b /\ b # "none"
    BY <2>1, LinkedAt, NoneIsNoFlow, Zenon
  <2>3. eg_stream'[eg_flow[b].stream] = eg_stream[eg_flow[b].stream]
    BY <2>1, <2>2, Zenon
  <2>4. eg_fd'[eg_flow[b].fd] = eg_fd[eg_flow[b].fd]
    BY <2>1, <2>2
  <2>5. Sound(b, eg_flow[b], eg_stream[eg_flow[b].stream], eg_fd[eg_flow[b].fd])
    BY <2>1, Zenon DEF EgInv, EgLinked
  <2> QED
    BY <2>1, <2>3, <2>4, <2>5, Zenon
<1>5. ASSUME NEW s \in EgStreams, eg_stream'[s].slot # "none"
      PROVE  eg_flow'[eg_stream'[s].slot].live /\ eg_flow'[eg_stream'[s].slot].stream = s
  <2>1. eg_stream[s].slot \notin A
    BY <1>5, Zenon
  <2>2. eg_stream'[s] = eg_stream[s]
    BY <1>2, <1>5, <2>1
  <2>3. eg_stream[s].slot # "none"
    BY <1>5, <2>2, Zenon
  <2>4. /\ eg_flow[eg_stream[s].slot].live /\ eg_flow[eg_stream[s].slot].stream = s
        /\ eg_stream[s].slot \in EgAddrs
    BY <2>3, SlotFlow, Zenon
  <2>5. eg_flow'[eg_stream[s].slot] = eg_flow[eg_stream[s].slot]
    BY <2>1, <2>4
  <2> QED
    BY <2>2, <2>4, <2>5
<1>6. ASSUME NEW f \in EgFds, eg_fd'[f].ctx # "none"
      PROVE  eg_flow'[eg_fd'[f].ctx].live /\ eg_flow'[eg_fd'[f].ctx].fd = f
  <2>1. eg_fd[f].ctx \notin A
    BY <1>2, <1>6
  <2>2. eg_fd'[f] = eg_fd[f]
    BY <2>1, Zenon
  <2>3. eg_fd[f].ctx # "none"
    BY <1>6, <2>2, Zenon
  <2>4. /\ eg_flow[eg_fd[f].ctx].live /\ eg_flow[eg_fd[f].ctx].fd = f
        /\ eg_fd[f].ctx \in EgAddrs
    BY <2>3, CtxFlow, Zenon
  <2>5. eg_flow'[eg_fd[f].ctx] = eg_flow[eg_fd[f].ctx]
    BY <2>1, <2>4
  <2> QED
    BY <2>2, <2>4, <2>5
<1>7. ASSUME NEW s \in EgStreams, ~eg_stream'[s].open PROVE eg_stream'[s] = NoStream
  <2>1. CASE eg_stream[s].slot \in A
    BY <1>7, <2>1, Zenon
  <2>2. CASE eg_stream'[s] = eg_stream[s]
    BY <1>7, <2>2, Zenon DEF EgInv, EgLinked
  <2> QED
    BY <2>1, <2>2, Zenon
<1>8. EgLinked'
  BY <1>4, <1>5, <1>6, <1>7, Zenon DEF EgLinked
<1>9. EgLive' = EgLive \ A
  <2>1. \A a \in EgAddrs : eg_flow'[a].live <=> a \notin A /\ eg_flow[a].live
    BY <1>2, <1>3
  <2> QED
    BY <2>1, Zenon DEF EgLive
<1>10. Cardinality(EgLive \ A) = Cardinality(EgLive) - Cardinality(A)
  BY LiveCounted, Zenon DEF Counting
<1>11. EgCounted'
  BY <1>9, <1>10, LiveCounted, Zenon DEF EgCounted
<1> QED
  BY <1>1, <1>8, <1>11, Zenon DEF EgInv

\* What any way to end a flow leaves of it.
LEMMA EndsFlow ==
    ASSUME EgInv, NEW a \in EgLive, NEW z,
           \/ z = svr_tcp_egress_fail_connect(Of(a), 504)
           \/ z = svr_tcp_egress_abort(Of(a))
           \/ z = svr_tcp_egress_flow_destroy(Of(a))
    PROVE  /\ z.flow = NoEgFlow /\ z.reg = Unregistered /\ z.stream \in Stream
           /\ z.stream.slot = "none" /\ z.stream.open
<1>1. PICK q : q = Of(a)
  BY Zenon
<1>2. Whole(q) /\ q \in Handler
  <2>1. a \in EgAddrs /\ eg_flow[a].live
    BY Zenon DEF EgLive
  <2>2. Whole(q)
    BY <1>1, <2>1, OfWhole, Zenon
  <2> QED
    BY <2>2, Zenon DEF Whole
<1>3. 504 \in Int
  OBVIOUS
<1>4. Gone(q, z)
  BY <1>1, <1>2, <1>3, FailConnectGone, AbortGone, DestroyGone, Zenon
<1>5. z.stream.open
  BY <1>2, <1>4, Zenon DEF Gone, Whole
<1> QED
  BY <1>4, <1>5, Zenon DEF Gone, Ended

\* One pass of svr_tcp_egress_tick.
LEMMA TickStep ==
    ASSUME EgInv, svr_tcp_egress_tick
    PROVE  EgInv'
<1> DEFINE Due == {a \in EgLive : eg_flow[a].expired /\ (eg_flow[a].state = "CONNECTING" \/ eg_case.idle_evict)}
           End == [a \in Due |-> IF eg_flow[a].state = "CONNECTING"
                                THEN svr_tcp_egress_fail_connect(Of(a), 504)
                                ELSE svr_tcp_egress_abort(Of(a))]
<1>1. Due \in SUBSET EgLive
  BY Zenon
<1>2. ASSUME NEW a \in Due
      PROVE  /\ End[a].flow = NoEgFlow /\ End[a].reg = Unregistered /\ End[a].stream \in Stream
             /\ End[a].stream.slot = "none" /\ End[a].stream.open
  <2>1. PICK z : z = End[a]
    BY Zenon
  <2>2. \/ z = svr_tcp_egress_fail_connect(Of(a), 504)
        \/ z = svr_tcp_egress_abort(Of(a))
    BY <2>1, Zenon
  <2>3. a \in EgLive
    BY <1>1, <1>2, Zenon
  <2>4. /\ z.flow = NoEgFlow /\ z.reg = Unregistered /\ z.stream \in Stream
        /\ z.stream.slot = "none" /\ z.stream.open
    BY <2>2, <2>3, EndsFlow
  <2> QED
    BY <2>1, <2>4
<1>3. /\ eg_flow' = [a \in EgAddrs |-> IF a \in Due THEN End[a].flow ELSE eg_flow[a]]
      /\ eg_fd' = [f \in EgFds |-> IF eg_fd[f].ctx \in Due THEN End[eg_fd[f].ctx].reg ELSE eg_fd[f]]
      /\ eg_conn_count' = eg_conn_count - Cardinality(Due)
      /\ eg_fd_count' = eg_fd_count - Cardinality(Due)
      /\ eg_case' = eg_case /\ eg_opened' = eg_opened /\ eg_erring' = eg_erring
      /\ eg_errno' = eg_errno
      /\ eg_stream' = [s \in EgStreams |-> IF eg_stream[s].slot \in Due
                                           THEN End[eg_stream[s].slot].stream ELSE eg_stream[s]]
  BY Zenon DEF svr_tcp_egress_tick, EndFlows
<1> HIDE DEF Due, End
<1>4. /\ eg_flow \in [EgAddrs -> Flow \cup {NoEgFlow}] /\ eg_fd \in [EgFds -> Registration]
      /\ eg_stream \in [EgStreams -> Stream]
  BY Zenon DEF EgInv, EgTypeOK
<1>5. /\ \A a \in EgAddrs : eg_flow'[a] = IF a \in Due THEN NoEgFlow ELSE eg_flow[a]
      /\ eg_flow' \in [EgAddrs -> Flow \cup {NoEgFlow}]
  BY <1>2, <1>3, <1>4
<1>6. Unregistered \in Registration
  BY Flagged, Zenon DEF Unregistered, Registration
<1>7. /\ \A f \in EgFds : eg_fd'[f] = IF eg_fd[f].ctx \in Due THEN Unregistered ELSE eg_fd[f]
      /\ eg_fd' \in [EgFds -> Registration]
  BY <1>2, <1>3, <1>4, <1>6
<1>8. /\ \A s \in EgStreams : eg_stream[s].slot \in Due =>
            eg_stream'[s] \in Stream /\ eg_stream'[s].slot = "none" /\ eg_stream'[s].open
      /\ \A s \in EgStreams : eg_stream[s].slot \notin Due => eg_stream'[s] = eg_stream[s]
      /\ eg_stream' \in [EgStreams -> Stream]
  BY <1>2, <1>3, <1>4
<1> QED
  BY <1>1, <1>3, <1>5, <1>7, <1>8, EndStep

\* svr_tcp_egress_destroy_all after the engine has closed the streams.
LEMMA DestroyAllStep ==
    ASSUME EgInv, svr_tcp_egress_destroy_all
    PROVE  EgInv'
<1> DEFINE End == [a \in EgLive |-> svr_tcp_egress_flow_destroy(Of(a))]
<1>1. EgLive \in SUBSET EgLive
  BY Zenon
<1>2. ASSUME NEW a \in EgLive PROVE End[a].flow = NoEgFlow /\ End[a].reg = Unregistered
  BY EndsFlow, Zenon
<1>3. /\ eg_flow' = [a \in EgAddrs |-> IF a \in EgLive THEN End[a].flow ELSE eg_flow[a]]
      /\ eg_fd' = [f \in EgFds |-> IF eg_fd[f].ctx \in EgLive THEN End[eg_fd[f].ctx].reg ELSE eg_fd[f]]
      /\ eg_conn_count' = eg_conn_count - Cardinality(EgLive)
      /\ eg_fd_count' = eg_fd_count - Cardinality(EgLive)
      /\ eg_case' = eg_case /\ eg_opened' = eg_opened /\ eg_erring' = eg_erring
      /\ eg_errno' = eg_errno
      /\ eg_stream' = [s \in EgStreams |-> NoStream]
  BY Zenon DEF svr_tcp_egress_destroy_all, EndFlows
<1> HIDE DEF End
<1>4. /\ eg_flow \in [EgAddrs -> Flow \cup {NoEgFlow}] /\ eg_fd \in [EgFds -> Registration]
      /\ NoStream \in Stream /\ NoStream.slot = "none" /\ Unregistered \in Registration
  BY FreshStream, Flagged, Zenon DEF EgInv, EgTypeOK, Unregistered, Registration
<1>5. /\ \A a \in EgAddrs : eg_flow'[a] = IF a \in EgLive THEN NoEgFlow ELSE eg_flow[a]
      /\ eg_flow' \in [EgAddrs -> Flow \cup {NoEgFlow}]
  BY <1>2, <1>3, <1>4
<1>6. /\ \A f \in EgFds : eg_fd'[f] = IF eg_fd[f].ctx \in EgLive THEN Unregistered ELSE eg_fd[f]
      /\ eg_fd' \in [EgFds -> Registration]
  BY <1>2, <1>3, <1>4
<1>7. \A s \in EgStreams : eg_stream[s].slot \notin EgLive => eg_stream[s].slot = "none"
  BY SlotFlow, Zenon DEF EgLive
<1>8. eg_stream' \in [EgStreams -> Stream] /\ \A s \in EgStreams : eg_stream'[s] = NoStream
  BY <1>3, <1>4
<1>9. \A s \in EgStreams : eg_stream[s].slot \in EgLive =>
        eg_stream'[s].slot = "none" /\ (~eg_stream'[s].open => eg_stream'[s] = NoStream)
  BY <1>4, <1>8
<1>10. \A s \in EgStreams : eg_stream[s].slot \notin EgLive =>
         \/ eg_stream'[s] = eg_stream[s]
         \/ eg_stream[s].slot = "none" /\ eg_stream'[s] = NoStream
  BY <1>7, <1>8, Zenon
<1> QED
  BY <1>1, <1>3, <1>5, <1>6, <1>8, <1>9, <1>10, EndStep

\* Every step keeps it, and ends no flow for another one's failure.
LEMMA EgressStep ==
    ASSUME EgInv, [EgressNext]_eg_vars
    PROVE  /\ EgInv'
           /\ \A a \in EgAddrs :
                (eg_erring # NoEgErr /\ eg_erring' = NoEgErr /\ eg_flow[a].live /\ ~eg_flow'[a].live)
                   => eg_flow[a].serial = eg_erring.serial
<1>1. CASE EngineCallback
  BY <1>1, EngineStep, Zenon
<1>2. CASE FlushEnds
  BY <1>2, FlushStep, Zenon
<1>3. CASE \E a \in EgAddrs : TargetSends(a) \/ TargetCloses(a) \/ TimePasses(a)
  BY <1>3, TargetStep, Zenon
<1>4. CASE eg_erring = NoEgErr /\ \E f \in EgFds : svr_tcp_egress_fd_ready(f)
  BY <1>4, ReadyStep, Zenon
<1>5. CASE eg_erring = NoEgErr /\ svr_tcp_egress_tick
  BY <1>5, TickStep, Zenon
<1>6. CASE eg_erring = NoEgErr /\ svr_tcp_egress_destroy_all
  BY <1>6, DestroyAllStep, Zenon
<1>7. CASE eg_erring = NoEgErr /\ OtherSyscall
  <2>1. /\ eg_errno' = "EAGAIN" /\ eg_case' = eg_case /\ eg_stream' = eg_stream
        /\ eg_flow' = eg_flow /\ eg_fd' = eg_fd /\ eg_conn_count' = eg_conn_count
        /\ eg_fd_count' = eg_fd_count /\ eg_opened' = eg_opened /\ eg_erring' = eg_erring
    BY <1>7, Zenon DEF OtherSyscall
  <2>2. EgTypeOK'
    BY <2>1, Zenon DEF EgInv, EgTypeOK
  <2>3. EgLinked' /\ EgCounted'
    BY <2>1, Zenon DEF EgInv, EgLinked, EgCounted, EgLive
  <2> QED
    BY <1>7, <2>2, <2>3, Zenon DEF EgInv
<1>8. CASE UNCHANGED eg_vars
  <2>1. /\ eg_errno' = eg_errno /\ eg_case' = eg_case /\ eg_stream' = eg_stream
        /\ eg_flow' = eg_flow /\ eg_fd' = eg_fd /\ eg_conn_count' = eg_conn_count
        /\ eg_fd_count' = eg_fd_count /\ eg_opened' = eg_opened /\ eg_erring' = eg_erring
    BY <1>8, Zenon DEF eg_vars
  <2>2. EgTypeOK'
    BY <2>1, Zenon DEF EgInv, EgTypeOK
  <2>3. EgLinked' /\ EgCounted'
    BY <2>1, Zenon DEF EgInv, EgLinked, EgCounted, EgLive
  <2> QED
    BY <2>1, <2>2, <2>3, Zenon DEF EgInv
<1> QED
  BY <1>1, <1>2, <1>3, <1>4, <1>5, <1>6, <1>7, <1>8, Zenon DEF EgressNext

\* A direction with nothing stashed and nothing left to read has arrived whole.
LEMMA AllArrived ==
    ASSUME NEW t \in Units, NEW n \in Nat, Joined(t, <<>>, <<>>, n)
    PROVE  Len(t) = n
<1>1. t \in Seq(Nat)
  BY Zenon DEF Units
<1>2. t \o <<>> = t
  BY <1>1, Blank, Zenon
<1>3. t = Numbered(n)
  BY <1>2, Zenon DEF Joined
<1> QED
  BY <1>1, <1>3 DEF Numbered

\* The invariant implies that both directions of every flow are intact.
LEMMA InvIntact == EgInv => EgressIntact
<1> SUFFICES ASSUME EgInv, NEW a \in EgLive, NEW ef, ef = eg_flow[a],
                    NEW st, st = eg_stream[ef.stream]
             PROVE  /\ ef.target \o ef.downlink_stash \o st.body = Numbered(st.nsent)
                    /\ ef.shutdown_done => st.fin /\ Len(ef.target) = st.nsent
                    /\ st.up \o ef.uplink_stash \o ef.inbox = Numbered(ef.nrecv)
                    /\ st.up_fin => ef.target_eof /\ Len(st.up) = ef.nrecv
  BY Zenon DEF EgressIntact
<1>1. a \in EgAddrs /\ eg_flow[a].live
  BY Zenon DEF EgLive
<1>2. Sound(a, ef, st, eg_fd[ef.fd])
  BY <1>1, Zenon DEF EgInv, EgLinked
<1>3. ef \in Flow /\ Down(ef, st) /\ Up(ef, st)
  BY <1>2, Zenon DEF Sound
<1>4. st \in Stream
  BY <1>3, Zenon DEF Flow, EgInv, EgTypeOK
<1>5. /\ Joined(ef.target, ef.downlink_stash, st.body, st.nsent)
      /\ Joined(st.up, ef.uplink_stash, ef.inbox, ef.nrecv)
  BY <1>3, Zenon DEF Down, Up
<1>6. ASSUME ef.shutdown_done PROVE st.fin /\ Len(ef.target) = st.nsent
  <2>1. st.fin /\ st.body = <<>> /\ ef.downlink_stash = <<>>
    BY <1>3, <1>6, Zenon DEF Down
  <2>2. Joined(ef.target, <<>>, <<>>, st.nsent)
    BY <1>5, <2>1, Zenon
  <2>3. ef.target \in Units /\ st.nsent \in Nat
    BY <1>3, <1>4, Zenon DEF Flow, Stream
  <2> QED
    BY <2>1, <2>2, <2>3, AllArrived, Zenon
<1>7. ASSUME st.up_fin PROVE ef.target_eof /\ Len(st.up) = ef.nrecv
  <2>1. ef.target_eof /\ ef.inbox = <<>> /\ ef.uplink_stash = <<>>
    BY <1>3, <1>7, Zenon DEF Up
  <2>2. Joined(st.up, <<>>, <<>>, ef.nrecv)
    BY <1>5, <2>1, Zenon
  <2>3. st.up \in Units /\ ef.nrecv \in Nat
    BY <1>3, <1>4, Zenon DEF Flow, Stream
  <2> QED
    BY <2>1, <2>2, <2>3, AllArrived, Zenon
<1> QED
  BY <1>5, <1>6, <1>7, Zenon DEF Joined

\* It also implies that the reactor polls exactly the flows, and the counts.
LEMMA InvPolled == EgInv => EgressPolled
<1> SUFFICES ASSUME EgInv PROVE EgressPolled
  BY Zenon
<1>1. ASSUME NEW a \in EgLive
      PROVE  LET ef == eg_flow[a]
             IN /\ eg_stream[ef.stream].slot = a
                /\ eg_fd[ef.fd] = IF ef.state = "CONNECTING"
                                  THEN [ctx |-> a, r |-> FALSE, w |-> TRUE]
                                  ELSE [ctx |-> a, r |-> ef.uplink_stash = <<>> /\ ~ef.eof_seen,
                                        w |-> ef.downlink_stash # <<>>]
  <2>1. a \in EgAddrs /\ eg_flow[a].live
    BY Zenon DEF EgLive
  <2>2. Sound(a, eg_flow[a], eg_stream[eg_flow[a].stream], eg_fd[eg_flow[a].fd])
    BY <2>1, Zenon DEF EgInv, EgLinked
  <2> QED
    BY <2>2, Zenon DEF Sound, Interest
<1>2. \A f \in EgFds : eg_fd[f].ctx # "none" =>
        eg_flow[eg_fd[f].ctx].live /\ eg_flow[eg_fd[f].ctx].fd = f
  BY CtxFlow, Zenon
<1>3. eg_fd_count = Cardinality(EgLive) /\ eg_conn_count = Cardinality(EgLive)
  BY LiveCounted, Zenon
<1> QED
  BY <1>1, <1>2, <1>3, Zenon DEF EgressPolled

-----------------------------------------------------------------------------
(* The theorems.                                                           *)

INSTANCE FiniteSetTheorems

\* A set of naturals that is not empty has a smallest element.
LEMMA LeastOf ==
    ASSUME NEW T \in SUBSET Nat, T # {}
    PROVE  \E x \in T : \A y \in T : x <= y
<1>1. PICK x \in T : \A y \in T : ~(<<y, x>> \in OpToRel(<, Nat))
  BY NatLessThanWellFounded, WFMin, Zenon
<1>2. \A y \in T : y < x => <<y, x>> \in OpToRel(<, Nat)
  BY Zenon DEF OpToRel
<1>3. \A y \in T : ~(y < x)
  BY <1>1, <1>2, Zenon
<1> QED
  BY <1>3

\* While an address is free there is a descriptor that no flow has: there are
\* as many descriptors as addresses.
LEMMA SomeFdFree ==
    ASSUME NEW S \in SUBSET EgAddrs, S # EgAddrs, NEW F \in [S -> EgFds],
           NEW Free, Free = {g \in EgFds : \A b \in S : F[b] # g}
    PROVE  \E g \in Free : \A h \in Free : g <= h
<1>1. /\ IsFiniteSet(EgAddrs) /\ Cardinality(EgAddrs) \in Nat
      /\ IsFiniteSet(S) /\ Cardinality(S) \in Nat /\ S \in SUBSET EgAddrs
  BY EgressAssumption, FS_Subset, FS_CardinalityType, Zenon
<1>2. Cardinality(S) < Cardinality(EgAddrs)
  <2>1. Cardinality(S) <= Cardinality(EgAddrs) /\ Cardinality(S) # Cardinality(EgAddrs)
    BY <1>1, FS_Subset, Zenon
  <2> QED
    BY <1>1, <2>1
<1>3. EgFds \in SUBSET Nat /\ IsFiniteSet(EgFds) /\ Cardinality(EgFds) = Cardinality(EgAddrs)
  <2>1. 1 \in Int /\ Cardinality(EgAddrs) \in Int
    BY <1>1
  <2>2. /\ IsFiniteSet(1..Cardinality(EgAddrs))
        /\ Cardinality(1..Cardinality(EgAddrs)) =
             IF 1 > Cardinality(EgAddrs) THEN 0 ELSE Cardinality(EgAddrs) - 1 + 1
    BY <2>1, FS_Interval, Zenon
  <2>3. Cardinality(1..Cardinality(EgAddrs)) = Cardinality(EgAddrs)
    BY <1>1, <2>2
  <2>4. EgFds \in SUBSET Nat
    BY <1>1 DEF EgFds
  <2> QED
    BY <2>2, <2>3, <2>4, Zenon DEF EgFds
<1>4. Free # {}
  <2> SUFFICES ASSUME Free = {} PROVE FALSE
    BY Zenon
  <2>1. \A g \in EgFds : \E b \in S : F[b] = g
    BY Zenon
  <2>2. F \in Surjection(S, EgFds)
    BY <2>1, Zenon DEF Surjection
  <2>3. Cardinality(EgFds) <= Cardinality(S)
    BY <1>1, <2>2, FS_Surjection, Zenon
  <2> QED
    BY <1>1, <1>2, <1>3, <2>3
<1>5. Free \in SUBSET Nat
  BY <1>3, Zenon
<1> QED
  BY <1>4, <1>5, LeastOf, Zenon

\* Counting the flows works as the steps need it.
LEMMA CountingHolds == Counting
<1>1. ASSUME NEW S \in SUBSET EgAddrs PROVE IsFiniteSet(S) /\ Cardinality(S) \in Nat
  BY EgressAssumption, FS_Subset, FS_CardinalityType, Zenon
<1>2. ASSUME NEW S \in SUBSET EgAddrs, NEW a \in EgAddrs \ S
      PROVE  Cardinality(S \cup {a}) = Cardinality(S) + 1
  BY <1>1, FS_AddElement, Zenon
<1>3. ASSUME NEW S \in SUBSET EgAddrs, NEW A \in SUBSET S
      PROVE  Cardinality(S \ A) = Cardinality(S) - Cardinality(A)
  <2>1. S \cap A = A
    BY Zenon
  <2>2. Cardinality(S \ A) = Cardinality(S) - Cardinality(S \cap A)
    BY <1>1, FS_Difference, Zenon
  <2> QED
    BY <2>1, <2>2, Zenon
<1>4. ASSUME NEW S \in SUBSET EgAddrs, NEW a \in S
      PROVE  Cardinality(S \ {a}) = Cardinality(S) - 1
  BY <1>1, FS_RemoveElement, Zenon
<1>5. ASSUME NEW S \in SUBSET EgAddrs, S # EgAddrs, NEW F \in [S -> EgFds]
      PROVE  \E g \in EgFds : /\ \A b \in S : F[b] # g
                             /\ \A h \in EgFds : (\A b \in S : F[b] # h) => g <= h
  <2>1. PICK Free : Free = {g \in EgFds : \A b \in S : F[b] # g}
    BY Zenon
  <2>2. PICK g \in Free : \A h \in Free : g <= h
    BY <1>5, <2>1, SomeFdFree, Zenon
  <2> QED
    BY <2>1, <2>2, Zenon
<1> QED
  BY <1>1, <1>2, <1>3, <1>4, <1>5, Zenon DEF Counting

\* The invariant holds at the start.
LEMMA InitStep ==
    ASSUME EgressInit
    PROVE  EgInv
<1>1. NoEgFlow.live = FALSE /\ Unregistered.ctx = "none" /\ Unregistered \in Registration
  <2>1. Unregistered \in Registration
    BY Flagged, Zenon DEF Unregistered, Registration
  <2> QED
    BY <2>1 DEF NoEgFlow, Unregistered
<1>2. NoStream \in Stream /\ NoStream.slot = "none"
  BY FreshStream, Zenon
<1>3. /\ eg_case \in EgCases /\ eg_stream = [s \in EgStreams |-> NoStream]
      /\ eg_flow = [a \in EgAddrs |-> NoEgFlow] /\ eg_fd = [f \in EgFds |-> Unregistered]
      /\ eg_conn_count = 0 /\ eg_fd_count = 0 /\ eg_opened = 0 /\ eg_erring = NoEgErr
      /\ eg_errno = "EAGAIN"
  BY Zenon DEF EgressInit
<1>4. EgTypeOK
  <2>1. eg_opened \in Nat /\ eg_erring \in Failure
    BY <1>3 DEF Failure
  <2> QED
    BY <1>1, <1>2, <1>3, <2>1, Zenon DEF EgTypeOK
<1>5. EgLinked
  BY <1>1, <1>2, <1>3 DEF EgLinked
<1>6. EgLive = {}
  BY <1>1, <1>3 DEF EgLive
<1>7. EgCounted
  BY <1>3, <1>6, CountingHolds, FS_EmptySet, Zenon DEF EgCounted
<1> QED
  BY <1>4, <1>5, <1>7, Zenon DEF EgInv

\* For every number of streams and flows, every chunk size and budget, and
\* every interleaving of engine callbacks, readiness, failures and timeouts,
\* tcp_egress.c relays each direction as one byte stream: nothing is lost,
\* repeated or reordered over its stashes, and a FIN goes out last.
THEOREM EgressRelaysIntact == EgressSpec => []EgressIntact
<1>1. EgressInit => EgInv
  BY InitStep
<1>2. EgInv /\ [EgressNext]_eg_vars => EgInv'
  BY EgressStep
<1> QED
  BY <1>1, <1>2, InvIntact, PTL DEF EgressSpec

\* The reactor polls exactly the descriptors of the live flows, for what each
\* one waits for, and the admission counters of svr_tcp_egress_start_connect
\* are exact.
THEOREM EgressPollsLive == EgressSpec => []EgressPolled
<1>1. EgressInit => EgInv
  BY InitStep
<1>2. EgInv /\ [EgressNext]_eg_vars => EgInv'
  BY EgressStep
<1> QED
  BY <1>1, <1>2, InvPolled, PTL DEF EgressSpec

\* svr_tcp_egress_on_relay_error tears down the flow that failed or none, even
\* when its address was given to another flow while the flush ran.
THEOREM EgressAbortsItsOwn == EgressSpec => AbortsTheFailedFlow
<1>1. EgressInit => EgInv
  BY InitStep
<1>2. EgInv /\ [EgressNext]_eg_vars => EgInv'
  BY EgressStep
<1>3. EgInv /\ [EgressNext]_eg_vars =>
        [\A a \in EgAddrs :
          (eg_erring # NoEgErr /\ eg_erring' = NoEgErr /\ eg_flow[a].live /\ ~eg_flow'[a].live)
             => eg_flow[a].serial = eg_erring.serial]_eg_vars
  BY EgressStep, Zenon
<1> QED
  BY <1>1, <1>2, <1>3, PTL DEF EgressSpec, AbortsTheFailedFlow
=============================================================================
