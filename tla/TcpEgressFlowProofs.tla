------------------------ MODULE TcpEgressFlowProofs ------------------------
(***************************************************************************)
(* Proofs about the server's TCP egress (TcpEgress): EgressIntact,         *)
(* EgressPolled and AbortsTheFailedFlow hold for every set of streams and  *)
(* addresses and every chunk and budget.  A handler is a chain of          *)
(* functions on a record of one flow, its stream and its registration, and *)
(* Commit writes the last one back.  So each function is shown to keep the *)
(* record Whole (its bytes in order) and Polled (registered for what it    *)
(* waits for), or to leave it Gone; that Commit of such a record keeps the *)
(* tables linked is shown once, for all handlers.                          *)
(***************************************************************************)
EXTENDS TcpEgress, TLAPS

(***************************************************************************)
(* Sequences of units                                                      *)
(***************************************************************************)

\* The length of a sequence.
LEMMA LenIs ==
    ASSUME NEW s \in Seq(Nat)
    PROVE  Len(s) \in Nat
OBVIOUS

\* The empty sequence.
LEMMA EmptyIs == <<>> \in Seq(Nat)
OBVIOUS

\* A concatenation.
LEMMA CatIs ==
    ASSUME NEW s \in Seq(Nat), NEW t \in Seq(Nat)
    PROVE  /\ s \o t \in Seq(Nat)
           /\ Len(s \o t) = Len(s) + Len(t)
           /\ \A i \in 1..(Len(s) + Len(t)) :
                 (s \o t)[i] = IF i <= Len(s) THEN s[i] ELSE t[i - Len(s)]
OBVIOUS

\* A sequence with one more unit.
LEMMA AppendIs ==
    ASSUME NEW s \in Seq(Nat), NEW n \in Nat
    PROVE  Append(s, n) \in Seq(Nat)
OBVIOUS

\* A piece of a sequence, from behind unit k to unit m.
LEMMA PieceIs ==
    ASSUME NEW s \in Seq(Nat), NEW k \in 0..Len(s), NEW m \in k..Len(s)
    PROVE  /\ SubSeq(s, k + 1, m) \in Seq(Nat)
           /\ Len(SubSeq(s, k + 1, m)) = m - k
           /\ \A i \in 1..(m - k) : SubSeq(s, k + 1, m)[i] = s[k + i]
OBVIOUS

\* Sequences with the same units are the same.
LEMMA SameUnits ==
    ASSUME NEW s \in Seq(Nat), NEW t \in Seq(Nat), Len(s) = Len(t),
           \A i \in 1..Len(s) : s[i] = t[i]
    PROVE  s = t
OBVIOUS

\* Two adjacent pieces are one.
LEMMA Adjacent ==
    ASSUME NEW s \in Seq(Nat), NEW k \in 0..Len(s), NEW m \in k..Len(s)
    PROVE  /\ SubSeq(s, k + 1, m) \in Seq(Nat)
           /\ SubSeq(s, m + 1, Len(s)) \in Seq(Nat)
           /\ SubSeq(s, k + 1, m) \o SubSeq(s, m + 1, Len(s)) = SubSeq(s, k + 1, Len(s))
<1>0. Len(s) \in Nat /\ m \in 0..Len(s) /\ Len(s) \in m..Len(s) /\ Len(s) \in k..Len(s)
  BY LenIs
<1>1. PICK x : x = SubSeq(s, k + 1, m)
  BY Zenon
<1>2. PICK y : y = SubSeq(s, m + 1, Len(s))
  BY Zenon
<1>3. PICK w : w = SubSeq(s, k + 1, Len(s))
  BY Zenon
<1>4. x \in Seq(Nat) /\ Len(x) = m - k /\ \A i \in 1..(m - k) : x[i] = s[k + i]
  BY <1>1, PieceIs, Zenon
<1>5. /\ y \in Seq(Nat) /\ Len(y) = Len(s) - m
      /\ \A i \in 1..(Len(s) - m) : y[i] = s[m + i]
  BY <1>0, <1>2, PieceIs, Zenon
<1>6. /\ w \in Seq(Nat) /\ Len(w) = Len(s) - k
      /\ \A i \in 1..(Len(s) - k) : w[i] = s[k + i]
  BY <1>0, <1>3, PieceIs, Zenon
<1>7. PICK z : z = x \o y
  BY Zenon
<1>8. /\ z \in Seq(Nat) /\ Len(z) = Len(x) + Len(y)
      /\ \A i \in 1..(Len(x) + Len(y)) : z[i] = IF i <= Len(x) THEN x[i] ELSE y[i - Len(x)]
  BY <1>4, <1>5, <1>7, CatIs, Zenon
<1>9. Len(z) = Len(w)
  BY <1>0, <1>4, <1>5, <1>6, <1>8
<1>10. ASSUME NEW i \in 1..Len(z) PROVE z[i] = w[i]
  <2>0. i \in 1..(Len(x) + Len(y)) /\ i \in 1..(Len(s) - k) /\ i \in Nat
    BY <1>0, <1>4, <1>5, <1>6, <1>8, <1>9
  <2>1. w[i] = s[k + i]
    BY <1>6, <2>0, Zenon
  <2>2. CASE i <= Len(x)
    <3>1. z[i] = x[i] /\ i \in 1..(m - k)
      BY <1>0, <1>4, <1>8, <2>0, <2>2
    <3> QED
      BY <1>4, <2>1, <3>1
  <2>3. CASE ~(i <= Len(x))
    <3>1. z[i] = y[i - Len(x)]
      BY <1>8, <2>0, <2>3
    <3>2. i - Len(x) \in 1..(Len(s) - m) /\ m + (i - Len(x)) = k + i
      BY <1>0, <1>4, <1>5, <2>0, <2>3
    <3>3. y[i - Len(x)] = s[m + (i - Len(x))]
      BY <1>5, <3>2, Zenon
    <3> QED
      BY <2>1, <3>1, <3>2, <3>3, Zenon
  <2> QED
    BY <2>2, <2>3, Zenon
<1>11. z = w
  BY <1>6, <1>8, <1>9, <1>10, SameUnits, Zenon
<1> QED
  BY <1>1, <1>2, <1>3, <1>4, <1>5, <1>7, <1>11, Zenon

\* A sequence cut in two is itself.
LEMMA CutInTwo ==
    ASSUME NEW s \in Seq(Nat), NEW k \in 0..Len(s)
    PROVE  /\ SubSeq(s, 1, k) \in Seq(Nat)
           /\ SubSeq(s, k + 1, Len(s)) \in Seq(Nat)
           /\ SubSeq(s, 1, k) \o SubSeq(s, k + 1, Len(s)) = s
<1>1. 0 \in 0..Len(s) /\ k \in 0..Len(s) /\ 0 + 1 = 1
  BY LenIs
<1>2. /\ SubSeq(s, 0 + 1, k) \in Seq(Nat) /\ SubSeq(s, k + 1, Len(s)) \in Seq(Nat)
      /\ SubSeq(s, 0 + 1, k) \o SubSeq(s, k + 1, Len(s)) = SubSeq(s, 0 + 1, Len(s))
  BY <1>1, Adjacent, Zenon
<1>3. SubSeq(s, 1, Len(s)) = s
  OBVIOUS
<1> QED
  BY <1>1, <1>2, <1>3, Zenon

\* Concatenation is associative.
LEMMA Assoc ==
    ASSUME NEW s \in Seq(Nat), NEW t \in Seq(Nat), NEW u \in Seq(Nat)
    PROVE  (s \o t) \o u = s \o (t \o u)
OBVIOUS

\* Sequences of units and their concatenation, as names the provers need not open.
Units == Seq(Nat)
Cat(s, t) == s \o t

\* A concatenation of four may be grouped from either end.
LEMMA Assoc4 ==
    ASSUME NEW s \in Units, NEW t \in Units, NEW u \in Units, NEW v \in Units
    PROVE  Cat(Cat(Cat(s, t), u), v) = Cat(s, Cat(t, Cat(u, v)))
<1>1. \A x, y \in Units : Cat(x, y) \in Units
  BY DEF Units, Cat
<1>2. \A x, y, z \in Units : Cat(Cat(x, y), z) = Cat(x, Cat(y, z))
  BY Assoc, Zenon DEF Units, Cat
<1> QED
  BY <1>1, <1>2

\* The empty sequence adds nothing.
LEMMA Blank ==
    ASSUME NEW s \in Seq(Nat)
    PROVE  /\ s \o <<>> = s
           /\ <<>> \o s = s
           /\ <<>> \in Seq(Nat)
           /\ Len(s) = 0 <=> s = <<>>
           /\ SubSeq(s, 1, Len(s)) = s
           /\ SubSeq(s, Len(s) + 1, Len(s)) = <<>>
OBVIOUS

\* Moving the first k units of the last piece to the first one, and the next
\* units to m into the middle one, which is empty, keeps the whole.
LEMMA MoveOn ==
    ASSUME NEW t \in Seq(Nat), NEW b \in Seq(Nat), NEW k \in 0..Len(b), NEW m \in k..Len(b)
    PROVE  (t \o SubSeq(b, 1, k)) \o SubSeq(b, k + 1, m) \o SubSeq(b, m + 1, Len(b)) = t \o b
<1>1. PICK x \in Seq(Nat) : x = SubSeq(b, 1, k)
  BY CutInTwo, Zenon
<1>2. PICK y \in Seq(Nat) : y = SubSeq(b, k + 1, m)
  BY Adjacent, Zenon
<1>3. PICK z \in Seq(Nat) : z = SubSeq(b, m + 1, Len(b))
  BY Adjacent, Zenon
<1>4. x \o (y \o z) = b
  <2>1. y \o z = SubSeq(b, k + 1, Len(b))
    BY <1>2, <1>3, Adjacent, Zenon
  <2>2. x \o SubSeq(b, k + 1, Len(b)) = b
    BY <1>1, CutInTwo, Zenon
  <2> QED
    BY <2>1, <2>2, Zenon
<1>5. t \in Units /\ x \in Units /\ y \in Units /\ z \in Units
  BY <1>1, <1>2, <1>3 DEF Units
<1>6. Cat(Cat(Cat(t, x), y), z) = Cat(t, Cat(x, Cat(y, z)))
  BY <1>5, Assoc4
<1> QED
  BY <1>1, <1>2, <1>3, <1>4, <1>6, Zenon DEF Cat

\* The next unit goes behind the ones numbered so far.
LEMMA NextUnit ==
    ASSUME NEW x \in Seq(Nat), NEW u \in Seq(Nat), NEW n \in Nat, x \o u = Numbered(n)
    PROVE  x \o Append(u, n + 1) = Numbered(n + 1)
<1>1. PICK w : w = x \o u
  OBVIOUS
<1>2. w \in Seq(Nat) /\ Len(w) = n /\ \A i \in 1..n : w[i] = i
  BY <1>1 DEF Numbered
<1>3. PICK z : z = x \o Append(u, n + 1)
  BY Zenon
<1>4. z = Append(w, n + 1)
  BY <1>1, <1>3
<1>5. z \in Seq(Nat) /\ Len(z) = n + 1 /\ \A i \in 1..(n + 1) : z[i] = i
  BY <1>2, <1>4
<1>6. z = Numbered(n + 1)
  BY <1>5 DEF Numbered
<1> QED
  BY <1>3, <1>6

(***************************************************************************)
(* One flow, its stream and its registration                               *)
(***************************************************************************)

\* The Booleans, under a name the provers need not open.
Flags == BOOLEAN

Flow ==
    [live : {TRUE}, stream : EgStreams, fd : EgFds, serial : Nat,
     state : {"CONNECTING", "ACTIVE"}, expired : Flags,
     target : Units, downlink_stash : Units, downlink_paused : Flags,
     fin_received : Flags, shutdown_done : Flags,
     inbox : Units, nrecv : Nat, target_eof : Flags,
     uplink_stash : Units, uplink_withheld : Flags, eof_seen : Flags, uplink_fin_sent : Flags]

Stream ==
    [open : Flags, slot : EgAddrs \cup {"none"}, resp : Int, nsent : Nat, body : Units,
     fin : Flags, up : Units, up_fin : Flags]

Registration == [ctx : EgAddrs \cup {"none"}, r : Flags, w : Flags]

Failure == {NoEgErr} \cup [addr : EgAddrs, serial : Nat]

Handler ==
    [addr : EgAddrs, sid : EgStreams, num : EgFds, flow : Flow, stream : Stream,
     reg : Registration, conn : Int, fds : Int, opened : Nat, erring : Failure,
     errno : {"EAGAIN", "other"}]

\* The bytes of one direction in the order sent: what has arrived, what is
\* stashed, what is still to be read.
Joined(arrived, stash, rest, n) == arrived \o stash \o rest = Numbered(n)

Down(ef, st) ==
    /\ Joined(ef.target, ef.downlink_stash, st.body, st.nsent)
    /\ ef.downlink_paused <=> ef.downlink_stash # <<>>
    /\ ef.fin_received => st.fin /\ st.body = <<>> /\ ef.downlink_stash = <<>>
    /\ ef.shutdown_done => ef.fin_received

Up(ef, st) ==
    /\ Joined(st.up, ef.uplink_stash, ef.inbox, ef.nrecv)
    /\ ef.uplink_withheld <=> ef.uplink_stash # <<>>
    /\ ef.eof_seen => ef.target_eof /\ ef.inbox = <<>>
    /\ st.up_fin => ef.eof_seen /\ ef.uplink_stash = <<>>

\* What a flow's descriptor is polled for.
Interest(a, ef) ==
    IF ef.state = "CONNECTING"
    THEN [ctx |-> a, r |-> FALSE, w |-> TRUE]
    ELSE [ctx |-> a, r |-> ef.uplink_stash = <<>> /\ ~ef.eof_seen, w |-> ef.downlink_stash # <<>>]

\* A handler run holds a sound flow with its stream ...
Whole(q) ==
    /\ q \in Handler
    /\ q.flow.stream = q.sid /\ q.flow.fd = q.num
    /\ q.stream.slot = q.addr /\ q.stream.open
    /\ Down(q.flow, q.stream)
    /\ Up(q.flow, q.stream)

\* ... and the registration says what the flow waits for.
Polled(q) == q.reg = Interest(q.addr, q.flow)

\* What a function of the chain leaves alone: outside the flow and the stream, ...
Outer(q, z) ==
    /\ z.addr = q.addr /\ z.sid = q.sid /\ z.num = q.num
    /\ z.conn = q.conn /\ z.fds = q.fds /\ z.opened = q.opened

\* ... in them, ...
SameFlow(f, x) == x.stream = f.stream /\ x.fd = f.fd
SameStream(s, y) == y.slot = s.slot /\ y.open = s.open

\* ... of the way to the target, ...
FlowDown(f, x) ==
    /\ x.target = f.target
    /\ x.downlink_stash = f.downlink_stash /\ x.downlink_paused = f.downlink_paused
    /\ x.fin_received = f.fin_received /\ x.shutdown_done = f.shutdown_done
StreamDown(s, y) == y.nsent = s.nsent /\ y.body = s.body /\ y.fin = s.fin

\* ... and of the way back.
FlowUp(f, x) ==
    /\ x.inbox = f.inbox /\ x.nrecv = f.nrecv /\ x.target_eof = f.target_eof
    /\ x.uplink_stash = f.uplink_stash /\ x.uplink_withheld = f.uplink_withheld
    /\ x.eof_seen = f.eof_seen
StreamUp(s, y) == y.up = s.up /\ y.up_fin = s.up_fin

\* The lowered and the raised flag are flags.
LEMMA Flagged ==
    /\ TRUE \in Flags /\ FALSE \in Flags
    /\ \A P : (P \in BOOLEAN) => P \in Flags
BY Zenon DEF Flags

\* Down depends on nothing else.
LEMMA DownKept ==
    ASSUME NEW f, NEW s, NEW x, NEW y, Down(f, s), FlowDown(f, x), StreamDown(s, y)
    PROVE  Down(x, y)
BY Zenon DEF Down, FlowDown, StreamDown

\* Nor does Up.
LEMMA UpKept ==
    ASSUME NEW f, NEW s, NEW x, NEW y, Up(f, s), FlowUp(f, x), StreamUp(s, y)
    PROVE  Up(x, y)
BY Zenon DEF Up, FlowUp, StreamUp

\* The registration fits as long as the stashes stay empty or not.
LEMMA PolledKept ==
    ASSUME NEW q, NEW z, Polled(q), z.reg = q.reg, z.addr = q.addr,
           z.flow.state = q.flow.state,
           z.flow.uplink_stash = <<>> <=> q.flow.uplink_stash = <<>>,
           z.flow.eof_seen <=> q.flow.eof_seen,
           z.flow.downlink_stash = <<>> <=> q.flow.downlink_stash = <<>>
    PROVE  Polled(z)
BY Zenon DEF Polled, Interest

\* A handler record with another flow, stream or errno.
SetFlow(q, x) == [q EXCEPT !.flow = x]
SetStream(q, y) == [q EXCEPT !.stream = y]
SetBoth(q, x, y) == [q EXCEPT !.flow = x, !.stream = y]
SetErrno(q, e) == [q EXCEPT !.errno = e]

\* The new flow, and the rest as before.
LEMMA RebuiltFlow ==
    ASSUME NEW q, q \in Handler, NEW x, x \in Flow, NEW z, z = SetFlow(q, x)
    PROVE  /\ z \in Handler /\ z.flow = x /\ z.stream = q.stream /\ z.errno = q.errno
           /\ z.reg = q.reg /\ z.erring = q.erring /\ Outer(q, z)
BY Zenon DEF Handler, Outer, SetFlow

\* The new stream, and the rest as before.
LEMMA RebuiltStream ==
    ASSUME NEW q, q \in Handler, NEW y, y \in Stream, NEW z, z = SetStream(q, y)
    PROVE  /\ z \in Handler /\ z.flow = q.flow /\ z.stream = y /\ z.errno = q.errno
           /\ z.reg = q.reg /\ z.erring = q.erring /\ Outer(q, z)
BY Zenon DEF Handler, Outer, SetStream

\* The new flow and stream, and the rest as before.
LEMMA RebuiltBoth ==
    ASSUME NEW q, q \in Handler, NEW x, x \in Flow, NEW y, y \in Stream, NEW z,
           z = SetBoth(q, x, y)
    PROVE  /\ z \in Handler /\ z.flow = x /\ z.stream = y /\ z.errno = q.errno
           /\ z.reg = q.reg /\ z.erring = q.erring /\ Outer(q, z)
BY Zenon DEF Handler, Outer, SetBoth

\* The new errno, and the rest as before.
LEMMA RebuiltErrno ==
    ASSUME NEW q, q \in Handler, NEW e, e \in {"EAGAIN", "other"}, NEW z, z = SetErrno(q, e)
    PROVE  /\ z \in Handler /\ z.flow = q.flow /\ z.stream = q.stream /\ z.errno = e
           /\ z.reg = q.reg /\ z.erring = q.erring /\ Outer(q, z)
BY Zenon DEF Handler, Outer, SetErrno

\* The parts of a sound flow.
LEMMA WholeParts ==
    ASSUME NEW q, Whole(q)
    PROVE  q \in Handler /\ q.flow \in Flow /\ q.stream \in Stream
BY Zenon DEF Whole, Handler

\* A sound flow from its parts.
LEMMA WholeAgain ==
    ASSUME NEW q, Whole(q), NEW z, z \in Handler, Outer(q, z),
           SameFlow(q.flow, z.flow), SameStream(q.stream, z.stream),
           Down(z.flow, z.stream), Up(z.flow, z.stream)
    PROVE  Whole(z)
BY Zenon DEF Whole, Outer, SameFlow, SameStream

\* svr_tcp_egress_update_fd_interest registers an ACTIVE flow for what it waits for.
LEMMA InterestUpdated ==
    ASSUME NEW q, Whole(q), q.flow.state = "ACTIVE",
           NEW z, z = svr_tcp_egress_update_fd_interest(q)
    PROVE  /\ Whole(z) /\ Polled(z) /\ Outer(q, z)
           /\ z.flow = q.flow /\ z.stream = q.stream
           /\ z.erring = q.erring /\ z.errno = q.errno
<1>0. q \in Handler
  BY Zenon DEF Whole
<1>1. PICK b : b = [ctx |-> q.addr, r |-> ~q.flow.uplink_withheld /\ ~q.flow.eof_seen,
                    w |-> q.flow.downlink_paused]
  BY Zenon
<1>2. b \in Registration
  BY <1>0, <1>1, Zenon DEF Registration, Handler, Flow, Flags
<1>3. z = [q EXCEPT !.reg = b]
  BY <1>1, Zenon DEF svr_tcp_egress_update_fd_interest, svr_egress_fd_register
<1>4. /\ z \in Handler /\ z.reg = b /\ Outer(q, z) /\ z.flow = q.flow /\ z.stream = q.stream
      /\ z.erring = q.erring /\ z.errno = q.errno
  BY <1>0, <1>2, <1>3, Zenon DEF Handler, Outer
<1>5. Whole(z)
  BY <1>4, Zenon DEF Whole, Outer
<1>6. b = Interest(q.addr, q.flow)
  BY <1>0, <1>1, Zenon DEF Whole, Down, Up, Interest, Handler, Flow, Flags
<1> QED
  BY <1>4, <1>5, <1>6, Zenon DEF Polled, Outer

\* Units moved from the last piece over an empty stash keep the whole.
LEMMA JoinedMoves ==
    ASSUME NEW t \in Units, NEW b \in Units, NEW n, Joined(t, <<>>, b, n),
           NEW k \in 0..Len(b), NEW m \in k..Len(b)
    PROVE  /\ t \o SubSeq(b, 1, k) \in Units
           /\ SubSeq(b, k + 1, m) \in Units
           /\ SubSeq(b, m + 1, Len(b)) \in Units
           /\ Joined(t \o SubSeq(b, 1, k), SubSeq(b, k + 1, m), SubSeq(b, m + 1, Len(b)), n)
<1>1. t \in Seq(Nat) /\ b \in Seq(Nat)
  BY Zenon DEF Units
<1>2. SubSeq(b, 1, k) \in Seq(Nat) /\ SubSeq(b, k + 1, m) \in Seq(Nat) /\ SubSeq(b, m + 1, Len(b)) \in Seq(Nat)
  BY <1>1, CutInTwo, Adjacent, Zenon
<1>3. t \o SubSeq(b, 1, k) \in Seq(Nat)
  BY <1>1, <1>2, CatIs, Zenon
<1>4. (t \o SubSeq(b, 1, k)) \o SubSeq(b, k + 1, m) \o SubSeq(b, m + 1, Len(b)) = t \o b
  BY <1>1, MoveOn, Zenon
<1>5. t \o <<>> = t
  BY <1>1, Blank, Zenon
<1> QED
  BY <1>2, <1>3, <1>4, <1>5, Zenon DEF Units, Joined

\* Units moved from the stash keep the whole.
LEMMA JoinedFlushes ==
    ASSUME NEW t \in Units, NEW h \in Units, NEW b \in Units, NEW n, Joined(t, h, b, n),
           NEW k \in 0..Len(h)
    PROVE  /\ t \o SubSeq(h, 1, k) \in Units
           /\ SubSeq(h, k + 1, Len(h)) \in Units
           /\ Joined(t \o SubSeq(h, 1, k), SubSeq(h, k + 1, Len(h)), b, n)
<1>1. t \in Seq(Nat) /\ h \in Seq(Nat)
  BY Zenon DEF Units
<1>2. /\ SubSeq(h, 1, k) \in Seq(Nat) /\ SubSeq(h, k + 1, Len(h)) \in Seq(Nat)
      /\ SubSeq(h, 1, k) \o SubSeq(h, k + 1, Len(h)) = h
  BY <1>1, CutInTwo, Zenon
<1>3. t \o SubSeq(h, 1, k) \in Seq(Nat)
  BY <1>1, <1>2, CatIs, Zenon
<1>4. PICK x : x = SubSeq(h, 1, k)
  BY Zenon
<1>5. PICK y : y = SubSeq(h, k + 1, Len(h))
  BY Zenon
<1>6. x \in Seq(Nat) /\ y \in Seq(Nat)
  BY <1>2, <1>4, <1>5, Zenon
<1>7. (t \o x) \o y = t \o (x \o y)
  BY <1>1, <1>6, Assoc, Zenon
<1> QED
  BY <1>2, <1>3, <1>4, <1>5, <1>7, Zenon DEF Units, Joined

\* The sender's next unit.
LEMMA JoinedGrows ==
    ASSUME NEW t \in Units, NEW h \in Units, NEW b \in Units, NEW n \in Nat, Joined(t, h, b, n)
    PROVE  /\ Append(b, n + 1) \in Units
           /\ Joined(t, h, Append(b, n + 1), n + 1)
<1>1. t \in Seq(Nat) /\ h \in Seq(Nat) /\ b \in Seq(Nat)
  BY Zenon DEF Units
<1>2. PICK x : x = t \o h
  BY Zenon
<1>3. x \in Seq(Nat)
  BY <1>1, <1>2, CatIs, Zenon
<1>4. x \o b = Numbered(n)
  BY <1>2, Zenon DEF Joined
<1>5. x \o Append(b, n + 1) = Numbered(n + 1)
  BY <1>1, <1>3, <1>4, NextUnit, Zenon
<1>6. Append(b, n + 1) \in Seq(Nat)
  BY <1>1, SMT
<1> QED
  BY <1>2, <1>5, <1>6, Zenon DEF Joined, Units

\* A chunk that is not taken whole leaves something to stash.
LEMMA ChunkEnds ==
    ASSUME NEW room \in Nat, NEW n \in Nat, room < n
    PROVE  ChunkEnd(room, n) \in room..n /\ ChunkEnd(room, n) > room
<1>1. (room \div TCP_EGRESS_RELAY_CHUNK + 1) * TCP_EGRESS_RELAY_CHUNK > room
  BY EgressAssumption
<1>2. (room \div TCP_EGRESS_RELAY_CHUNK + 1) * TCP_EGRESS_RELAY_CHUNK \in Int
  BY EgressAssumption
<1> QED
  BY <1>1, <1>2 DEF ChunkEnd

\* Taken is the smaller of the two.
LEMMA TakenIs ==
    ASSUME NEW room \in Nat, NEW n \in Nat
    PROVE  /\ Taken(room, n) \in 0..n
           /\ room < n => Taken(room, n) = room
           /\ ~(room < n) => Taken(room, n) = n
           /\ Taken(room, n) < n <=> room < n
BY DEF Taken

\* svr_tcp_egress_maybe_shutdown_downlink passes a FIN on only behind the last byte.
LEMMA ShutdownWhole ==
    ASSUME NEW q, Whole(q), NEW z, z = svr_tcp_egress_maybe_shutdown_downlink(q)
    PROVE  /\ Whole(z) /\ Outer(q, z) /\ z.reg = q.reg /\ z.stream = q.stream
           /\ z.flow.state = q.flow.state /\ FlowUp(q.flow, z.flow)
           /\ z.flow.downlink_stash = q.flow.downlink_stash
           /\ z.flow.downlink_paused = q.flow.downlink_paused
           /\ z.erring = q.erring /\ z.errno = q.errno
<1>0. q \in Handler /\ q.flow \in Flow /\ q.stream \in Stream
  BY WholeParts, Zenon
<1>1. CASE ~q.flow.fin_received \/ q.flow.downlink_paused
  BY <1>1, Zenon DEF svr_tcp_egress_maybe_shutdown_downlink, Outer, FlowUp
<1>2. CASE ~(~q.flow.fin_received \/ q.flow.downlink_paused)
  <2>1. PICK x : x = [q.flow EXCEPT !.shutdown_done = TRUE]
    BY Zenon
  <2>2. z = SetFlow(q, x)
    BY <1>2, <2>1, Zenon DEF svr_tcp_egress_maybe_shutdown_downlink, SetFlow
  <2>3. /\ x \in Flow /\ SameFlow(q.flow, x) /\ FlowUp(q.flow, x) /\ x.state = q.flow.state
        /\ x.target = q.flow.target /\ x.downlink_stash = q.flow.downlink_stash
        /\ x.downlink_paused = q.flow.downlink_paused /\ x.fin_received = q.flow.fin_received
    BY <1>0, <2>1, Flagged, Zenon DEF Flow, SameFlow, FlowUp
  <2>4. /\ z \in Handler /\ z.flow = x /\ z.stream = q.stream /\ z.errno = q.errno
        /\ z.reg = q.reg /\ z.erring = q.erring /\ Outer(q, z)
    BY <1>0, <2>2, <2>3, RebuiltFlow
  <2>5. Down(x, q.stream)
    BY <1>2, <2>3, Zenon DEF Whole, Down
  <2>6. Up(x, q.stream)
    BY <2>3, UpKept, Zenon DEF Whole, StreamUp
  <2>7. Whole(z)
    BY <2>3, <2>4, <2>5, <2>6, WholeAgain, Zenon DEF SameStream
  <2> QED
    BY <2>3, <2>4, <2>7, Zenon
<1> QED
  BY <1>1, <1>2, Zenon
\* Outer composes.
LEMMA OuterChain ==
    ASSUME NEW p, NEW q, NEW z, Outer(p, q), Outer(q, z)
    PROVE  Outer(p, z)
BY Zenon DEF Outer

\* What moves when a sink takes `room` of the units read to `end`, of those in b.
LEMMA PiecesOfRoom ==
    ASSUME NEW t, t \in Units, NEW b, b \in Units, NEW n, Joined(t, <<>>, b, n),
           NEW lim \in 0..Len(b), NEW room \in Nat, room < lim
    PROVE  /\ t \o SubSeq(b, 1, room) \in Units
           /\ SubSeq(b, room + 1, ChunkEnd(room, lim)) \in Units
           /\ SubSeq(b, room + 1, ChunkEnd(room, lim)) # <<>>
           /\ SubSeq(b, ChunkEnd(room, lim) + 1, Len(b)) \in Units
           /\ Joined(t \o SubSeq(b, 1, room), SubSeq(b, room + 1, ChunkEnd(room, lim)),
                     SubSeq(b, ChunkEnd(room, lim) + 1, Len(b)), n)
           /\ b # <<>>
<1>0. b \in Seq(Nat) /\ Len(b) \in Nat
  BY LenIs DEF Units
<1>1. PICK e : e = ChunkEnd(room, lim)
  BY Zenon
<1>2. e \in room..lim /\ e > room
  BY <1>0, <1>1, ChunkEnds
<1>3. room \in 0..Len(b) /\ e \in room..Len(b) /\ b # <<>>
  BY <1>0, <1>2
<1>4. SubSeq(b, room + 1, e) # <<>>
  <2>1. PICK x : x = SubSeq(b, room + 1, e)
    BY Zenon
  <2>2. Len(x) = e - room
    BY <1>0, <1>3, <2>1, PieceIs, Zenon
  <2>3. e - room # 0 /\ Len(<<>>) = 0
    BY <1>0, <1>2
  <2> QED
    BY <2>1, <2>2, <2>3, Zenon
<1> QED
  BY <1>1, <1>3, <1>4, JoinedMoves, Zenon

\* What moves when a sink takes all of the first n units of b.
LEMMA PiecesOfAll ==
    ASSUME NEW t, t \in Units, NEW b, b \in Units, NEW n, Joined(t, <<>>, b, n),
           NEW k \in 0..Len(b)
    PROVE  /\ t \o SubSeq(b, 1, k) \in Units
           /\ SubSeq(b, k + 1, Len(b)) \in Units
           /\ Joined(t \o SubSeq(b, 1, k), <<>>, SubSeq(b, k + 1, Len(b)), n)
           /\ k = Len(b) => SubSeq(b, k + 1, Len(b)) = <<>>
<1>0. b \in Seq(Nat) /\ Len(b) \in Nat
  BY LenIs DEF Units
<1>1. k \in k..Len(b) /\ k + 1 \in Int /\ k \in Int /\ k < k + 1 /\ Len(b) \in Int
  BY <1>0
<1>2. SubSeq(b, k + 1, k) = <<>>
  <2>1. PICK x : x = SubSeq(b, k + 1, k)
    BY Zenon
  <2>2. x \in Seq(Nat) /\ Len(x) = k - k
    BY <1>0, <1>1, <2>1, PieceIs, Zenon
  <2>3. x = <<>>
    BY <2>2
  <2> QED
    BY <2>1, <2>3, Zenon
<1>3. k = Len(b) => SubSeq(b, k + 1, Len(b)) = <<>>
  BY <1>2, Zenon
<1> QED
  BY <1>1, <1>2, <1>3, JoinedMoves, Zenon

\* svr_tcp_egress_drain_body keeps the bytes in order and the poll registration right.
LEMMA DrainWhole ==
    ASSUME NEW q, Whole(q), Polled(q), q.flow.state = "ACTIVE", NEW room \in Nat,
           NEW z, z = svr_tcp_egress_drain_body(q, room)
    PROVE  Whole(z) /\ Polled(z) /\ Outer(q, z) /\ z.flow.state = "ACTIVE" /\ z.erring = q.erring
<1>0. q \in Handler /\ q.flow \in Flow /\ q.stream \in Stream
  BY WholeParts, Zenon
<1>1. CASE q.flow.downlink_paused
  BY <1>1, Zenon DEF svr_tcp_egress_drain_body, Outer
<1>2. CASE ~q.flow.downlink_paused
  <2>1. PICK b : b = q.stream.body
    BY Zenon
  <2>2. b \in Units /\ q.flow.target \in Units
    BY <1>0, <2>1, Zenon DEF Flow, Stream
  <2>3. Len(b) \in Nat
    BY <2>2, LenIs, Zenon DEF Units
  <2>4. q.flow.downlink_stash = <<>> /\ Joined(q.flow.target, <<>>, b, q.stream.nsent)
    BY <1>2, <2>1, Zenon DEF Whole, Down
  <2>5. PICK k : k = Taken(room, Len(b))
    BY Zenon
  <2>6. /\ k \in 0..Len(b)
        /\ room < Len(b) => k = room
        /\ ~(room < Len(b)) => k = Len(b)
    BY <2>3, <2>5, TakenIs, Zenon
  <2>7. q.flow.target \o SubSeq(b, 1, k) \in Units
    BY <2>2, <2>4, <2>6, PiecesOfAll, Zenon
  <2>8. PICK x : x = [q.flow EXCEPT !.target = @ \o SubSeq(b, 1, k), !.expired = @ /\ k = 0]
    BY Zenon
  <2>9. /\ x \in Flow /\ SameFlow(q.flow, x) /\ FlowUp(q.flow, x) /\ x.state = q.flow.state
        /\ x.target = q.flow.target \o SubSeq(b, 1, k)
        /\ x.downlink_stash = q.flow.downlink_stash /\ x.downlink_paused = q.flow.downlink_paused
        /\ x.fin_received = q.flow.fin_received /\ x.shutdown_done = q.flow.shutdown_done
    <3>1. (q.flow.expired /\ k = 0) \in Flags
      BY Flagged, Zenon
    <3> QED
      BY <1>0, <2>7, <2>8, <3>1, Zenon DEF Flow, SameFlow, FlowUp
  <2>10. PICK p : p = [q EXCEPT !.flow.target = @ \o SubSeq(b, 1, k), !.flow.expired = @ /\ k = 0]
    BY Zenon
  <2>11. /\ p \in Handler /\ p.flow = x /\ p.stream = q.stream /\ p.errno = q.errno
         /\ p.reg = q.reg /\ p.erring = q.erring /\ Outer(q, p)
    <3>1. p = SetFlow(q, x)
      BY <2>8, <2>10, Zenon DEF SetFlow
    <3> QED
      BY <1>0, <2>9, <3>1, RebuiltFlow
  <2>12. CASE room < Len(b)
    <3>1. PICK e : e = ChunkEnd(room, Len(b))
      BY Zenon
    <3>2. PICK h : h = SubSeq(b, room + 1, e)
      BY Zenon
    <3>3. PICK r : r = SubSeq(b, e + 1, Len(b))
      BY Zenon
    <3>4. h \in Units /\ h # <<>> /\ r \in Units /\ Joined(x.target, h, r, q.stream.nsent) /\ b # <<>>
      <4>1. Len(b) \in 0..Len(b)
        BY <2>3
      <4>2. /\ SubSeq(b, room + 1, e) \in Units /\ SubSeq(b, room + 1, e) # <<>>
            /\ SubSeq(b, e + 1, Len(b)) \in Units /\ b # <<>>
            /\ Joined(q.flow.target \o SubSeq(b, 1, room), SubSeq(b, room + 1, e),
                      SubSeq(b, e + 1, Len(b)), q.stream.nsent)
        BY <2>2, <2>4, <2>12, <3>1, <4>1, PiecesOfRoom, Zenon
      <4>3. x.target = q.flow.target \o SubSeq(b, 1, room)
        BY <2>6, <2>9, <2>12, Zenon
      <4> QED
        BY <3>2, <3>3, <4>2, <4>3, Zenon
    <3>5. PICK y : y = [q.stream EXCEPT !.body = r]
      BY Zenon
    <3>6. /\ y \in Stream /\ SameStream(q.stream, y) /\ StreamUp(q.stream, y)
          /\ y.nsent = q.stream.nsent /\ y.body = r /\ y.fin = q.stream.fin
      BY <1>0, <3>4, <3>5, Zenon DEF Stream, SameStream, StreamUp
    <3>7. PICK x2 : x2 = [x EXCEPT !.downlink_stash = h, !.downlink_paused = TRUE]
      BY Zenon
    <3>8. /\ x2 \in Flow /\ SameFlow(x, x2) /\ FlowUp(x, x2) /\ x2.state = x.state
          /\ x2.target = x.target /\ x2.downlink_stash = h /\ x2.downlink_paused = TRUE
          /\ x2.fin_received = x.fin_received /\ x2.shutdown_done = x.shutdown_done
      BY <2>9, <3>4, <3>7, Flagged, Zenon DEF Flow, SameFlow, FlowUp
    <3>9. PICK p2 : p2 = [p EXCEPT !.stream.body = r, !.errno = "EAGAIN"]
      BY Zenon
    <3>10. /\ p2 \in Handler /\ p2.flow = x /\ p2.stream = y
           /\ p2.reg = q.reg /\ p2.erring = q.erring /\ Outer(p, p2)
      <4>1. p2.flow = p.flow /\ p2.stream = y /\ p2.errno = "EAGAIN" /\ p2.reg = p.reg
            /\ p2.erring = p.erring /\ Outer(p, p2) /\ p2 = [p EXCEPT !.stream = y, !.errno = "EAGAIN"]
        BY <2>11, <3>5, <3>9, Zenon DEF Handler, Outer
      <4>2. p2 \in Handler
        BY <2>11, <3>6, <4>1, Zenon DEF Handler
      <4> QED
        BY <2>11, <4>1, <4>2, Zenon
    <3>11. PICK p3 : p3 = [p2 EXCEPT !.flow.downlink_stash = h, !.flow.downlink_paused = TRUE]
      BY Zenon
    <3>12. /\ p3 \in Handler /\ p3.flow = x2 /\ p3.stream = y
           /\ p3.reg = q.reg /\ p3.erring = q.erring /\ Outer(p2, p3)
      <4>1. p3 = SetFlow(p2, x2)
        BY <3>7, <3>10, <3>11, Zenon DEF SetFlow
      <4> QED
        BY <3>8, <3>10, <4>1, RebuiltFlow
    <3>13. z = svr_tcp_egress_update_fd_interest(p3)
      BY <1>2, <2>1, <2>5, <2>10, <2>12, <3>1, <3>2, <3>3, <3>9, <3>11, Zenon
         DEF svr_tcp_egress_drain_body, svr_tcp_egress_stash_downlink
    <3>14. Down(x2, y)
      BY <2>1, <2>9, <3>4, <3>6, <3>8, Zenon DEF Whole, Down
    <3>15. Up(x2, y)
      <4>1. FlowUp(q.flow, x2)
        BY <2>9, <3>8, Zenon DEF FlowUp
      <4> QED
        BY <3>6, <4>1, UpKept, Zenon DEF Whole
    <3>16. Outer(q, p3)
      BY <2>11, <3>10, <3>12, OuterChain, Zenon
    <3>17. Whole(p3)
      <4>1. SameFlow(q.flow, x2)
        BY <2>9, <3>8, Zenon DEF SameFlow
      <4> QED
        BY <3>6, <3>12, <3>14, <3>15, <3>16, <4>1, WholeAgain, Zenon
    <3>18. p3.flow.state = "ACTIVE"
      BY <2>9, <3>8, <3>12, Zenon
    <3> QED
      BY <3>12, <3>13, <3>16, <3>17, <3>18, InterestUpdated, OuterChain, Zenon
  <2>13. CASE ~(room < Len(b))
    <3>1. PICK y : y = [q.stream EXCEPT !.body = <<>>]
      BY Zenon
    <3>2. /\ y \in Stream /\ SameStream(q.stream, y) /\ StreamUp(q.stream, y)
          /\ y.nsent = q.stream.nsent /\ y.body = <<>> /\ y.fin = q.stream.fin
      <4>1. <<>> \in Units
        BY EmptyIs, Zenon DEF Units
      <4> QED
        BY <1>0, <3>1, <4>1, Zenon DEF Stream, SameStream, StreamUp
    <3>3. PICK x2 : x2 = [x EXCEPT !.fin_received = q.stream.fin]
      BY Zenon
    <3>4. /\ x2 \in Flow /\ SameFlow(x, x2) /\ FlowUp(x, x2) /\ x2.state = x.state
          /\ x2.target = x.target /\ x2.downlink_stash = x.downlink_stash
          /\ x2.downlink_paused = x.downlink_paused
          /\ x2.fin_received = q.stream.fin /\ x2.shutdown_done = x.shutdown_done
      <4>1. q.stream.fin \in Flags
        BY <1>0, Zenon DEF Stream
      <4> QED
        BY <2>9, <3>3, <4>1, Zenon DEF Flow, SameFlow, FlowUp
    <3>5. PICK p2 : p2 = [p EXCEPT !.stream.body = <<>>, !.flow.fin_received = q.stream.fin]
      BY Zenon
    <3>6. /\ p2 \in Handler /\ p2.flow = x2 /\ p2.stream = y
          /\ p2.reg = q.reg /\ p2.erring = q.erring /\ Outer(p, p2)
      <4>1. p2 = SetBoth(p, x2, y)
        BY <2>11, <3>1, <3>3, <3>5, Zenon DEF Handler, SetBoth
      <4> QED
        BY <2>11, <3>2, <3>4, <4>1, RebuiltBoth
    <3>7. z = svr_tcp_egress_maybe_shutdown_downlink(p2)
      BY <1>2, <2>1, <2>5, <2>10, <2>13, <3>5, Zenon DEF svr_tcp_egress_drain_body
    <3>8. Down(x2, y)
      <4>1. SubSeq(b, k + 1, Len(b)) = <<>> /\ Joined(x.target, <<>>, SubSeq(b, k + 1, Len(b)), q.stream.nsent)
        BY <2>2, <2>4, <2>6, <2>9, <2>13, PiecesOfAll, Zenon
      <4> QED
        BY <2>4, <2>9, <3>2, <3>4, <4>1, Zenon DEF Whole, Down
    <3>9. Up(x2, y)
      <4>1. FlowUp(q.flow, x2)
        BY <2>9, <3>4, Zenon DEF FlowUp
      <4> QED
        BY <3>2, <4>1, UpKept, Zenon DEF Whole
    <3>10. Outer(q, p2)
      BY <2>11, <3>6, OuterChain, Zenon
    <3>11. Whole(p2)
      <4>1. SameFlow(q.flow, x2)
        BY <2>9, <3>4, Zenon DEF SameFlow
      <4> QED
        BY <3>2, <3>6, <3>8, <3>9, <3>10, <4>1, WholeAgain, Zenon
    <3>12. /\ Whole(z) /\ Outer(p2, z) /\ z.reg = p2.reg /\ z.flow.state = p2.flow.state
           /\ FlowUp(p2.flow, z.flow) /\ z.flow.downlink_stash = p2.flow.downlink_stash
           /\ z.erring = p2.erring
      BY <3>7, <3>11, ShutdownWhole, Zenon
    <3>13. Polled(z)
      <4>1. z.addr = q.addr
        BY <3>10, <3>12, Zenon DEF Outer
      <4>2. /\ z.flow.uplink_stash = q.flow.uplink_stash /\ z.flow.eof_seen = q.flow.eof_seen
            /\ z.flow.downlink_stash = q.flow.downlink_stash /\ z.flow.state = q.flow.state
            /\ z.reg = q.reg
        BY <2>9, <3>4, <3>6, <3>12, Zenon DEF FlowUp
      <4> QED
        BY <4>1, <4>2, PolledKept, Zenon
    <3> QED
      BY <2>9, <3>4, <3>6, <3>10, <3>12, <3>13, OuterChain, Zenon
  <2> QED
    BY <2>12, <2>13, Zenon
<1> QED
  BY <1>1, <1>2, Zenon

\* svr_tcp_egress_flush_downlink_retry sends the stash from where it stopped.
LEMMA FlushWhole ==
    ASSUME NEW q, Whole(q), Polled(q), q.flow.state = "ACTIVE", q.flow.downlink_paused,
           NEW room \in Nat, NEW z, z = svr_tcp_egress_flush_downlink_retry(q, room)
    PROVE  Whole(z) /\ Polled(z) /\ Outer(q, z) /\ z.flow.state = "ACTIVE" /\ z.erring = q.erring
<1>0. q \in Handler /\ q.flow \in Flow /\ q.stream \in Stream
  BY WholeParts, Zenon
<1>1. PICK h : h = q.flow.downlink_stash
  BY Zenon
<1>2. /\ h \in Units /\ q.flow.target \in Units /\ q.stream.body \in Units
      /\ Joined(q.flow.target, h, q.stream.body, q.stream.nsent) /\ h # <<>>
      /\ ~q.flow.fin_received /\ ~q.flow.shutdown_done
  BY <1>0, <1>1, Zenon DEF Flow, Stream, Whole, Down
<1>3. Len(h) \in Nat
  BY <1>2, LenIs, Zenon DEF Units
<1>4. PICK k : k = Taken(room, Len(h))
  BY Zenon
<1>5. /\ k \in 0..Len(h)
      /\ k < Len(h) <=> room < Len(h)
      /\ ~(k < Len(h)) => k = Len(h)
  BY <1>3, <1>4, TakenIs, Zenon
<1>6. PICK r : r = SubSeq(h, k + 1, Len(h))
  BY Zenon
<1>7. /\ q.flow.target \o SubSeq(h, 1, k) \in Units /\ r \in Units
      /\ Joined(q.flow.target \o SubSeq(h, 1, k), r, q.stream.body, q.stream.nsent)
  BY <1>2, <1>5, <1>6, JoinedFlushes, Zenon
<1>8. r = <<>> <=> ~(k < Len(h))
  <2>1. h \in Seq(Nat)
    BY <1>2, Zenon DEF Units
  <2>2. Len(r) = Len(h) - k
    <3>1. Len(h) \in k..Len(h)
      BY <1>3, <1>5
    <3> QED
      BY <2>1, <1>5, <1>6, <3>1, PieceIs, Zenon
  <2>3. r \in Seq(Nat)
    BY <1>7, Zenon DEF Units
  <2>4. r = <<>> <=> Len(r) = 0
    BY <2>3, Blank, Zenon
  <2> QED
    BY <2>2, <2>4, <1>3, <1>5
<1>9. PICK x : x = [q.flow EXCEPT !.target = @ \o SubSeq(h, 1, k), !.expired = @ /\ k = 0,
                                  !.downlink_stash = r]
  BY Zenon
<1>10. /\ x \in Flow /\ SameFlow(q.flow, x) /\ FlowUp(q.flow, x) /\ x.state = q.flow.state
       /\ x.target = q.flow.target \o SubSeq(h, 1, k) /\ x.downlink_stash = r
       /\ x.downlink_paused = q.flow.downlink_paused
       /\ x.fin_received = q.flow.fin_received /\ x.shutdown_done = q.flow.shutdown_done
  <2>1. (q.flow.expired /\ k = 0) \in Flags
    BY Flagged, Zenon
  <2> QED
    BY <1>0, <1>7, <1>9, <2>1, Zenon DEF Flow, SameFlow, FlowUp
<1>11. PICK e : e = IF k < Len(h) THEN "EAGAIN" ELSE q.errno
  BY Zenon
<1>12. e \in {"EAGAIN", "other"}
  BY <1>0, <1>11, Zenon DEF Handler
<1>13. PICK p : p = [q EXCEPT !.flow.target = @ \o SubSeq(h, 1, k), !.flow.expired = @ /\ k = 0,
                              !.flow.downlink_stash = r,
                              !.errno = IF k < Len(h) THEN "EAGAIN" ELSE @]
  BY Zenon
<1>14. /\ p \in Handler /\ p.flow = x /\ p.stream = q.stream
       /\ p.reg = q.reg /\ p.erring = q.erring /\ Outer(q, p)
  <2>1. PICK p0 : p0 = SetFlow(q, x)
    BY Zenon
  <2>2. p = SetErrno(p0, e)
    BY <1>0, <1>9, <1>11, <1>13, <2>1, Zenon DEF SetFlow, SetErrno, Handler
  <2>3. /\ p0 \in Handler /\ p0.flow = x /\ p0.stream = q.stream /\ p0.errno = q.errno
        /\ p0.reg = q.reg /\ p0.erring = q.erring /\ Outer(q, p0)
    BY <1>0, <1>10, <2>1, RebuiltFlow
  <2> QED
    BY <1>12, <2>2, <2>3, RebuiltErrno, OuterChain
<1>15. Up(x, q.stream)
  BY <1>10, UpKept, Zenon DEF Whole, StreamUp
<1>16. CASE k < Len(h)
  <2>1. z = p
    BY <1>1, <1>4, <1>6, <1>13, <1>16, Zenon DEF svr_tcp_egress_flush_downlink_retry
  <2>2. Down(x, q.stream)
    BY <1>2, <1>7, <1>8, <1>10, <1>16, Zenon DEF Down
  <2>3. Whole(p)
    BY <1>10, <1>14, <1>15, <2>2, WholeAgain, Zenon DEF SameStream
  <2>4. Polled(p)
    <3>1. /\ p.addr = q.addr /\ p.flow.state = q.flow.state
          /\ p.flow.uplink_stash = q.flow.uplink_stash /\ p.flow.eof_seen = q.flow.eof_seen
      BY <1>10, <1>14, Zenon DEF Outer, FlowUp
    <3>2. p.flow.downlink_stash # <<>> /\ q.flow.downlink_stash # <<>>
      BY <1>1, <1>2, <1>8, <1>10, <1>14, <1>16, Zenon
    <3> QED
      BY <1>14, <3>1, <3>2, PolledKept, Zenon
  <2> QED
    BY <1>10, <1>14, <2>1, <2>3, <2>4, Zenon
<1>17. CASE ~(k < Len(h))
  <2>1. PICK x2 : x2 = [x EXCEPT !.downlink_paused = FALSE]
    BY Zenon
  <2>2. /\ x2 \in Flow /\ SameFlow(x, x2) /\ FlowUp(x, x2) /\ x2.state = x.state
        /\ x2.target = x.target /\ x2.downlink_stash = r /\ x2.downlink_paused = FALSE
        /\ x2.fin_received = x.fin_received /\ x2.shutdown_done = x.shutdown_done
    BY <1>10, <2>1, Flagged, Zenon DEF Flow, SameFlow, FlowUp
  <2>3. PICK p2 : p2 = [p EXCEPT !.flow.downlink_paused = FALSE]
    BY Zenon
  <2>4. /\ p2 \in Handler /\ p2.flow = x2 /\ p2.stream = q.stream
        /\ p2.reg = q.reg /\ p2.erring = q.erring /\ Outer(p, p2)
    <3>1. p2 = SetFlow(p, x2)
      BY <1>14, <2>1, <2>3, Zenon DEF SetFlow
    <3> QED
      BY <1>14, <2>2, <3>1, RebuiltFlow
  <2>5. Down(x2, q.stream)
    BY <1>2, <1>7, <1>8, <1>10, <1>17, <2>2, Zenon DEF Down
  <2>6. Up(x2, q.stream)
    BY <1>15, <2>2, UpKept, Zenon DEF StreamUp
  <2>7. Whole(p2) /\ Outer(q, p2)
    <3>1. SameFlow(q.flow, x2) /\ SameStream(q.stream, q.stream)
      BY <1>10, <2>2, Zenon DEF SameFlow, SameStream
    <3>2. Outer(q, p2)
      BY <1>14, <2>4, OuterChain, Zenon
    <3> QED
      BY <2>4, <2>5, <2>6, <3>1, <3>2, WholeAgain, Zenon
  <2>8. PICK p3 : p3 = svr_tcp_egress_maybe_shutdown_downlink(p2)
    BY Zenon
  <2>9. Whole(p3) /\ Outer(q, p3) /\ p3.flow.state = "ACTIVE" /\ p3.erring = q.erring
    <3>1. p2.flow.state = "ACTIVE"
      BY <1>10, <2>2, <2>4, Zenon
    <3>2. Whole(p3) /\ Outer(p2, p3) /\ p3.flow.state = p2.flow.state /\ p3.erring = p2.erring
      BY <2>7, <2>8, ShutdownWhole, Zenon
    <3> QED
      BY <2>4, <2>7, <3>1, <3>2, OuterChain, Zenon
  <2>10. PICK p4 : p4 = svr_tcp_egress_update_fd_interest(p3)
    BY Zenon
  <2>11. Whole(p4) /\ Polled(p4) /\ Outer(q, p4) /\ p4.flow.state = "ACTIVE" /\ p4.erring = q.erring
    <3>1. Whole(p4) /\ Polled(p4) /\ Outer(p3, p4) /\ p4.flow = p3.flow /\ p4.erring = p3.erring
      BY <2>9, <2>10, InterestUpdated, Zenon
    <3> QED
      BY <2>9, <3>1, OuterChain, Zenon
  <2>12. z = svr_tcp_egress_drain_body(p4, room - Len(h))
    BY <1>1, <1>4, <1>6, <1>13, <1>17, <2>3, <2>8, <2>10, Zenon
       DEF svr_tcp_egress_flush_downlink_retry
  <2>13. room - Len(h) \in Nat
    BY <1>3, <1>5, <1>17
  <2>14. PICK left \in Nat : left = room - Len(h)
    BY <2>13, Zenon
  <2>15. Whole(z) /\ Polled(z) /\ Outer(p4, z) /\ z.flow.state = "ACTIVE" /\ z.erring = p4.erring
    BY <2>11, <2>12, <2>14, DrainWhole, Zenon
  <2> QED
    BY <2>11, <2>15, OuterChain, Zenon
<1> QED
  BY <1>16, <1>17, Zenon

\* svr_tcp_egress_try_uplink_fin sends the FIN only behind the last byte.
LEMMA FinWhole ==
    ASSUME NEW q, Whole(q), q.flow.eof_seen, q.flow.uplink_stash = <<>>,
           NEW ok \in BOOLEAN, NEW z, z = svr_tcp_egress_try_uplink_fin(q, ok)
    PROVE  /\ Whole(z) /\ Outer(q, z) /\ z.erring = q.erring /\ z.flow.state = q.flow.state
           /\ Polled(q) => Polled(z)
<1>0. q \in Handler /\ q.flow \in Flow /\ q.stream \in Stream
  BY WholeParts, Zenon
<1>1. CASE q.flow.uplink_fin_sent
  BY <1>1, Zenon DEF svr_tcp_egress_try_uplink_fin, Outer
<1>2. CASE ~q.flow.uplink_fin_sent
  <2>0. ok \in Flags
    BY Zenon DEF Flags
  <2>1. PICK x : x = [q.flow EXCEPT !.uplink_fin_sent = ok]
    BY Zenon
  <2>2. PICK y : y = [q.stream EXCEPT !.up_fin = ok]
    BY Zenon
  <2>3. /\ x \in Flow /\ SameFlow(q.flow, x) /\ FlowUp(q.flow, x) /\ FlowDown(q.flow, x)
        /\ x.state = q.flow.state
    BY <1>0, <2>0, <2>1, Zenon DEF Flow, SameFlow, FlowUp, FlowDown
  <2>4. /\ y \in Stream /\ SameStream(q.stream, y) /\ StreamDown(q.stream, y)
        /\ y.up = q.stream.up
    BY <1>0, <2>0, <2>2, Zenon DEF Stream, SameStream, StreamDown
  <2>5. z = SetBoth(q, x, y)
    BY <1>0, <1>2, <2>1, <2>2, Zenon DEF svr_tcp_egress_try_uplink_fin, SetBoth, Handler
  <2>6. /\ z \in Handler /\ z.flow = x /\ z.stream = y
        /\ z.reg = q.reg /\ z.erring = q.erring /\ Outer(q, z)
    BY <1>0, <2>3, <2>4, <2>5, RebuiltBoth
  <2>7. Down(x, y)
    BY <2>3, <2>4, DownKept, Zenon DEF Whole
  <2>8. Up(x, y)
    BY <2>3, <2>4, Zenon DEF Whole, Up, FlowUp
  <2>9. Whole(z)
    BY <2>3, <2>4, <2>6, <2>7, <2>8, WholeAgain, Zenon
  <2>10. Polled(q) => Polled(z)
    BY <2>3, <2>6, PolledKept, Zenon DEF Outer, FlowUp, FlowDown
  <2> QED
    BY <2>3, <2>6, <2>9, <2>10, Zenon
<1> QED
  BY <1>1, <1>2, Zenon

\* svr_tcp_egress_on_relay_error outside the engine only marks the flow.
LEMMA FailureMarked ==
    ASSUME NEW q, Whole(q), Polled(q), NEW z, z = svr_tcp_egress_on_relay_error(q, FALSE)
    PROVE  Whole(z) /\ Polled(z) /\ Outer(q, z) /\ z.flow = q.flow /\ z.erring \in Failure
<1>0. q \in Handler /\ q.flow \in Flow /\ q.stream \in Stream
  BY WholeParts, Zenon
<1>1. PICK e : e = [addr |-> q.addr, serial |-> q.flow.serial]
  BY Zenon
<1>2. e \in Failure
  BY <1>0, <1>1, Zenon DEF Failure, Handler, Flow
<1>3. z = [q EXCEPT !.erring = e]
  BY <1>1, Zenon DEF svr_tcp_egress_on_relay_error
<1>4. /\ z \in Handler /\ z.flow = q.flow /\ z.stream = q.stream /\ z.reg = q.reg
      /\ Outer(q, z) /\ z.erring = e
  BY <1>0, <1>2, <1>3, Zenon DEF Handler, Outer
<1> QED
  BY <1>2, <1>4, Zenon DEF Whole, Polled, Outer

\* The recv loop of svr_tcp_egress_on_relay_ready keeps the bytes in order.
LEMMA RelayWhole ==
    ASSUME NEW q, Whole(q), Polled(q), q.flow.state = "ACTIVE", ~q.flow.uplink_withheld,
           NEW room \in Nat, NEW ok \in BOOLEAN, NEW z, z = relay_uplink(q, room, ok)
    PROVE  Whole(z) /\ Polled(z) /\ Outer(q, z) /\ z.erring \in Failure
<1>0. q \in Handler /\ q.flow \in Flow /\ q.stream \in Stream
  BY WholeParts, Zenon
<1>1. PICK b : b = q.flow.inbox
  BY Zenon
<1>2. /\ b \in Units /\ q.stream.up \in Units /\ q.flow.uplink_stash = <<>>
      /\ Joined(q.stream.up, <<>>, b, q.flow.nrecv) /\ q.erring \in Failure
  BY <1>0, <1>1, Zenon DEF Flow, Stream, Whole, Up, Handler
<1>3. Len(b) \in Nat
  BY <1>2, LenIs, Zenon DEF Units
<1>4. PICK n : n = Taken(TCP_EGRESS_RELAY_BUDGET, Len(b))
  BY Zenon
<1>5. n \in 0..Len(b) /\ n \in Nat /\ (n # TCP_EGRESS_RELAY_BUDGET => n = Len(b))
      /\ (n = TCP_EGRESS_RELAY_BUDGET => b # <<>>)
  <2>1. b = <<>> => Len(b) = 0
    OBVIOUS
  <2>2. TCP_EGRESS_RELAY_BUDGET \in Nat /\ TCP_EGRESS_RELAY_BUDGET # 0
    BY EgressAssumption
  <2> QED
    BY <1>3, <1>4, <2>1, <2>2 DEF Taken
<1>6. PICK end : end = IF room < n THEN ChunkEnd(room, n) ELSE n
  BY Zenon
<1>7. PICK k : k = Taken(room, n)
  BY Zenon
<1>8. /\ k \in 0..n /\ k \in 0..Len(b)
      /\ room < n => k = room /\ end = ChunkEnd(room, n)
      /\ ~(room < n) => k = n /\ end = n
  BY <1>3, <1>5, <1>6, <1>7 DEF Taken
<1>9. PICK u : u = q.stream.up \o SubSeq(b, 1, k)
  BY Zenon
<1>10. PICK r : r = SubSeq(b, end + 1, Len(b))
  BY Zenon
<1>11. PICK h : h = SubSeq(b, room + 1, end)
  BY Zenon
<1>12. room < n => /\ u \in Units /\ h \in Units /\ h # <<>> /\ r \in Units
                   /\ Joined(u, h, r, q.flow.nrecv) /\ b # <<>>
  BY <1>2, <1>5, <1>8, <1>9, <1>10, <1>11, PiecesOfRoom, Zenon
<1>13. ~(room < n) => /\ u \in Units /\ r \in Units /\ Joined(u, <<>>, r, q.flow.nrecv)
                      /\ n = Len(b) => r = <<>>
  BY <1>2, <1>5, <1>8, <1>9, <1>10, PiecesOfAll, Zenon
<1>14. PICK x : x = [q.flow EXCEPT !.inbox = r, !.expired = @ /\ end = 0]
  BY Zenon
<1>15. /\ x \in Flow /\ SameFlow(q.flow, x) /\ FlowDown(q.flow, x) /\ x.state = q.flow.state
       /\ x.inbox = r /\ x.nrecv = q.flow.nrecv /\ x.target_eof = q.flow.target_eof
       /\ x.uplink_stash = q.flow.uplink_stash /\ x.uplink_withheld = q.flow.uplink_withheld
       /\ x.eof_seen = q.flow.eof_seen
  <2>1. (q.flow.expired /\ end = 0) \in Flags
    BY Flagged, Zenon
  <2>2. r \in Units
    BY <1>12, <1>13, Zenon
  <2> QED
    BY <1>0, <1>14, <2>1, <2>2, Zenon DEF Flow, SameFlow, FlowDown
<1>16. PICK y : y = [q.stream EXCEPT !.up = @ \o SubSeq(b, 1, k)]
  BY Zenon
<1>17. /\ y \in Stream /\ SameStream(q.stream, y) /\ StreamDown(q.stream, y)
       /\ y.up = u /\ y.up_fin = q.stream.up_fin
  <2>1. u \in Units
    BY <1>12, <1>13, Zenon
  <2> QED
    BY <1>0, <1>9, <1>16, <2>1, Zenon DEF Stream, SameStream, StreamDown
<1>18. PICK p : p = [q EXCEPT !.flow.inbox = r, !.flow.expired = @ /\ end = 0,
                              !.stream.up = @ \o SubSeq(b, 1, k)]
  BY Zenon
<1>19. /\ p \in Handler /\ p.flow = x /\ p.stream = y /\ p.errno = q.errno
       /\ p.reg = q.reg /\ p.erring = q.erring /\ Outer(q, p)
  <2>1. p = SetBoth(q, x, y)
    BY <1>0, <1>14, <1>16, <1>18, Zenon DEF SetBoth, Handler
  <2> QED
    BY <1>0, <1>15, <1>17, <2>1, RebuiltBoth
<1>20. CASE room < n
  <2>1. PICK x2 : x2 = [x EXCEPT !.uplink_stash = h, !.uplink_withheld = TRUE]
    BY Zenon
  <2>2. /\ x2 \in Flow /\ SameFlow(x, x2) /\ FlowDown(x, x2) /\ x2.state = x.state
        /\ x2.inbox = x.inbox /\ x2.nrecv = x.nrecv /\ x2.target_eof = x.target_eof
        /\ x2.uplink_stash = h /\ x2.uplink_withheld = TRUE /\ x2.eof_seen = x.eof_seen
    BY <1>12, <1>15, <1>20, <2>1, Flagged, Zenon DEF Flow, SameFlow, FlowDown
  <2>3. PICK p2 : p2 = [p EXCEPT !.flow.uplink_stash = h, !.flow.uplink_withheld = TRUE]
    BY Zenon
  <2>4. /\ p2 \in Handler /\ p2.flow = x2 /\ p2.stream = y
        /\ p2.reg = q.reg /\ p2.erring = q.erring /\ Outer(p, p2)
    <3>1. p2 = SetFlow(p, x2)
      BY <1>19, <2>1, <2>3, Zenon DEF SetFlow
    <3> QED
      BY <1>19, <2>2, <3>1, RebuiltFlow
  <2>5. Down(x2, y)
    <3>1. FlowDown(q.flow, x2)
      BY <1>15, <2>2, Zenon DEF FlowDown
    <3> QED
      BY <1>17, <3>1, DownKept, Zenon DEF Whole
  <2>6. Up(x2, y)
    <3>1. ~q.flow.eof_seen /\ ~q.stream.up_fin
      BY <1>1, <1>12, <1>20, Zenon DEF Whole, Up
    <3> QED
      BY <1>12, <1>15, <1>17, <1>20, <2>2, <3>1, Zenon DEF Up
  <2>7. Whole(p2) /\ Outer(q, p2)
    <3>1. SameFlow(q.flow, x2)
      BY <1>15, <2>2, Zenon DEF SameFlow
    <3>2. Outer(q, p2)
      BY <1>19, <2>4, OuterChain, Zenon
    <3> QED
      BY <1>17, <2>4, <2>5, <2>6, <3>1, <3>2, WholeAgain, Zenon
  <2>8. z = svr_tcp_egress_update_fd_interest(p2)
    BY <1>1, <1>4, <1>6, <1>7, <1>10, <1>11, <1>18, <1>20, <2>3, Zenon
       DEF relay_uplink, svr_tcp_egress_stash_uplink
  <2>9. p2.flow.state = "ACTIVE"
    BY <1>15, <2>2, <2>4, Zenon
  <2>10. Whole(z) /\ Polled(z) /\ Outer(p2, z) /\ z.erring = p2.erring
    BY <2>7, <2>8, <2>9, InterestUpdated, Zenon
  <2> QED
    BY <1>2, <2>4, <2>7, <2>10, OuterChain, Zenon
<1>21. CASE ~(room < n)
  <2>1. Down(x, y)
    BY <1>15, <1>17, DownKept, Zenon DEF Whole
  <2>2. Joined(y.up, x.uplink_stash, x.inbox, x.nrecv)
    BY <1>2, <1>13, <1>15, <1>17, <1>21, Zenon
  <2>3. q.flow.eof_seen => n = Len(b)
    BY <1>1, <1>5, Zenon DEF Whole, Up
  <2>4. Up(x, y)
    BY <1>13, <1>15, <1>17, <1>21, <2>2, <2>3, Zenon DEF Whole, Up
  <2>5. Whole(p)
    BY <1>15, <1>17, <1>19, <2>1, <2>4, WholeAgain, Zenon
  <2>6. Polled(p)
    BY <1>15, <1>19, PolledKept, Zenon DEF Outer, FlowDown
  <2>7. p.flow.state = "ACTIVE"
    BY <1>15, <1>19, Zenon
  <2>8. CASE n = TCP_EGRESS_RELAY_BUDGET
    <3>1. \/ z = svr_tcp_egress_update_fd_interest(p)
          \/ z = svr_tcp_egress_on_relay_error(p, FALSE)
      BY <1>1, <1>4, <1>6, <1>7, <1>10, <1>18, <1>21, <2>8, Zenon DEF relay_uplink
    <3>2. CASE z = svr_tcp_egress_update_fd_interest(p)
      <4>1. Whole(z) /\ Polled(z) /\ Outer(p, z) /\ z.erring = p.erring
        BY <2>5, <2>7, <3>2, InterestUpdated, Zenon
      <4> QED
        BY <1>2, <1>19, <4>1, OuterChain, Zenon
    <3>3. CASE z = svr_tcp_egress_on_relay_error(p, FALSE)
      <4>1. Whole(z) /\ Polled(z) /\ Outer(p, z) /\ z.erring \in Failure
        BY <2>5, <2>6, <3>3, FailureMarked, Zenon
      <4> QED
        BY <1>19, <4>1, OuterChain, Zenon
    <3> QED
      BY <3>1, <3>2, <3>3, Zenon
  <2>9. CASE n # TCP_EGRESS_RELAY_BUDGET /\ q.flow.target_eof
    <3>1. PICK x2 : x2 = [x EXCEPT !.eof_seen = TRUE]
      BY Zenon
    <3>2. /\ x2 \in Flow /\ SameFlow(x, x2) /\ FlowDown(x, x2) /\ x2.state = x.state
          /\ x2.inbox = x.inbox /\ x2.nrecv = x.nrecv /\ x2.target_eof = x.target_eof
          /\ x2.uplink_stash = x.uplink_stash /\ x2.uplink_withheld = x.uplink_withheld
          /\ x2.eof_seen = TRUE
      BY <1>15, <3>1, Flagged, Zenon DEF Flow, SameFlow, FlowDown
    <3>3. PICK p2 : p2 = [p EXCEPT !.flow.eof_seen = TRUE]
      BY Zenon
    <3>4. /\ p2 \in Handler /\ p2.flow = x2 /\ p2.stream = y
          /\ p2.reg = q.reg /\ p2.erring = q.erring /\ Outer(p, p2)
      <4>1. p2 = SetFlow(p, x2)
        BY <1>19, <3>1, <3>3, Zenon DEF SetFlow
      <4> QED
        BY <1>19, <3>2, <4>1, RebuiltFlow
    <3>5. Down(x2, y)
      BY <2>1, <3>2, DownKept, Zenon DEF StreamDown
    <3>6. Up(x2, y)
      BY <1>5, <1>13, <1>15, <1>21, <2>4, <2>9, <3>2, Zenon DEF Up
    <3>7. Whole(p2) /\ Outer(q, p2)
      <4>1. SameFlow(q.flow, x2)
        BY <1>15, <3>2, Zenon DEF SameFlow
      <4>2. Outer(q, p2)
        BY <1>19, <3>4, OuterChain, Zenon
      <4> QED
        BY <1>17, <3>4, <3>5, <3>6, <4>1, <4>2, WholeAgain, Zenon
    <3>8. p2.flow.state = "ACTIVE"
      BY <1>15, <3>2, <3>4, Zenon
    <3>9. PICK p3 : p3 = svr_tcp_egress_update_fd_interest(p2)
      BY Zenon
    <3>10. /\ Whole(p3) /\ Polled(p3) /\ Outer(p2, p3) /\ p3.erring = p2.erring
           /\ p3.flow = p2.flow
      BY <3>7, <3>8, <3>9, InterestUpdated, Zenon
    <3>11. z = svr_tcp_egress_try_uplink_fin(p3, ok)
      BY <1>1, <1>4, <1>6, <1>7, <1>10, <1>18, <1>21, <2>9, <3>3, <3>9, Zenon DEF relay_uplink
    <3>12. p3.flow.eof_seen /\ p3.flow.uplink_stash = <<>>
      BY <1>2, <1>15, <3>2, <3>4, <3>10, Zenon
    <3>13. Whole(z) /\ Outer(p3, z) /\ z.erring = p3.erring /\ Polled(z)
      BY <3>10, <3>11, <3>12, FinWhole, Zenon
    <3> QED
      BY <1>2, <3>4, <3>7, <3>10, <3>13, OuterChain, Zenon
  <2>10. CASE n # TCP_EGRESS_RELAY_BUDGET /\ ~q.flow.target_eof
    <3>1. PICK p2 : p2 = [p EXCEPT !.errno = "EAGAIN"]
      BY Zenon
    <3>2. /\ p2 \in Handler /\ p2.flow = x /\ p2.stream = y /\ p2.erring = q.erring
          /\ Outer(p, p2)
      <4>1. p2 = SetErrno(p, "EAGAIN")
        BY <3>1, Zenon DEF SetErrno
      <4> QED
        BY <1>19, <4>1, RebuiltErrno
    <3>3. Whole(p2) /\ p2.flow.state = "ACTIVE"
      BY <1>19, <2>5, <2>7, <3>2, Zenon DEF Whole, Outer
    <3>4. z = svr_tcp_egress_update_fd_interest(p2)
      BY <1>1, <1>4, <1>6, <1>7, <1>10, <1>18, <1>21, <2>10, <3>1, Zenon DEF relay_uplink
    <3>5. Whole(z) /\ Polled(z) /\ Outer(p2, z) /\ z.erring = p2.erring
      BY <3>3, <3>4, InterestUpdated, Zenon
    <3> QED
      BY <1>2, <1>19, <3>2, <3>5, OuterChain, Zenon
  <2> QED
    BY <2>8, <2>9, <2>10, Zenon
<1> QED
  BY <1>20, <1>21, Zenon

\* svr_tcp_egress_on_relay_ready, both directions.
LEMMA ReadyWhole ==
    ASSUME NEW q, Whole(q), Polled(q), q.flow.state = "ACTIVE",
           NEW r \in BOOLEAN, NEW w \in BOOLEAN, NEW droom \in Nat, NEW uroom \in Nat,
           NEW ok \in BOOLEAN,
           NEW z, z = svr_tcp_egress_on_relay_ready(q, r, w, droom, uroom, ok)
    PROVE  Whole(z) /\ Polled(z) /\ Outer(q, z) /\ z.erring \in Failure
<1>1. PICK p : p = IF w /\ q.flow.downlink_paused
                   THEN svr_tcp_egress_flush_downlink_retry(q, droom) ELSE q
  BY Zenon
<1>2. Whole(p) /\ Polled(p) /\ Outer(q, p) /\ p.flow.state = "ACTIVE" /\ p.erring = q.erring
  <2>1. CASE w /\ q.flow.downlink_paused
    BY <1>1, <2>1, FlushWhole, Zenon
  <2>2. CASE ~(w /\ q.flow.downlink_paused)
    BY <1>1, <2>2, Zenon DEF Outer
  <2> QED
    BY <2>1, <2>2, Zenon
<1>3. p.erring \in Failure
  <2>1. p \in Handler
    BY <1>2, Zenon DEF Whole
  <2> QED
    BY <2>1, Zenon DEF Handler
<1>4. CASE r /\ ~p.flow.uplink_withheld
  <2>1. z = relay_uplink(p, uroom, ok)
    BY <1>1, <1>4, Zenon DEF svr_tcp_egress_on_relay_ready
  <2>2. Whole(z) /\ Polled(z) /\ Outer(p, z) /\ z.erring \in Failure
    BY <1>2, <1>4, <2>1, RelayWhole, Zenon
  <2> QED
    BY <1>2, <2>2, OuterChain, Zenon
<1>5. CASE ~(r /\ ~p.flow.uplink_withheld)
  <2>1. z = svr_tcp_egress_update_fd_interest(p)
    BY <1>1, <1>5, Zenon DEF svr_tcp_egress_on_relay_ready
  <2>2. Whole(z) /\ Polled(z) /\ Outer(p, z) /\ z.erring = p.erring
    BY <1>2, <2>1, InterestUpdated, Zenon
  <2> QED
    BY <1>2, <1>3, <2>2, OuterChain, Zenon
<1> QED
  BY <1>4, <1>5, Zenon

\* The part of svr_tcp_egress_on_connected before the body.
LEMMA ConnectedWhole ==
    ASSUME NEW q, Whole(q), NEW z, z = connected(q)
    PROVE  Whole(z) /\ Polled(z) /\ Outer(q, z) /\ z.flow.state = "ACTIVE" /\ z.erring = q.erring
<1>0. q \in Handler /\ q.flow \in Flow /\ q.stream \in Stream
  BY WholeParts, Zenon
<1>1. PICK x : x = [q.flow EXCEPT !.state = "ACTIVE", !.expired = FALSE]
  BY Zenon
<1>2. /\ x \in Flow /\ SameFlow(q.flow, x) /\ FlowUp(q.flow, x) /\ FlowDown(q.flow, x)
      /\ x.state = "ACTIVE"
  BY <1>0, <1>1, Flagged, Zenon DEF Flow, SameFlow, FlowUp, FlowDown
<1>3. PICK p : p = [q EXCEPT !.flow.state = "ACTIVE", !.flow.expired = FALSE]
  BY Zenon
<1>4. /\ p \in Handler /\ p.flow = x /\ p.stream = q.stream /\ p.erring = q.erring /\ Outer(q, p)
  <2>1. p = SetFlow(q, x)
    BY <1>1, <1>3, Zenon DEF SetFlow
  <2> QED
    BY <1>0, <1>2, <2>1, RebuiltFlow
<1>5. Down(x, q.stream) /\ Up(x, q.stream)
  BY <1>2, DownKept, UpKept, Zenon DEF Whole, StreamDown, StreamUp
<1>6. Whole(p)
  BY <1>2, <1>4, <1>5, WholeAgain, Zenon DEF SameStream
<1>7. PICK p2 : p2 = svr_tcp_egress_update_fd_interest(p)
  BY Zenon
<1>8. /\ Whole(p2) /\ Polled(p2) /\ Outer(p, p2) /\ p2.flow = x /\ p2.stream = q.stream
      /\ p2.erring = q.erring
  <2>1. p.flow.state = "ACTIVE"
    BY <1>2, <1>4, Zenon
  <2> QED
    BY <1>4, <1>6, <1>7, <2>1, InterestUpdated, Zenon
<1>9. PICK y : y = [q.stream EXCEPT !.resp = 200]
  BY Zenon
<1>10. y \in Stream /\ SameStream(q.stream, y) /\ StreamDown(q.stream, y) /\ StreamUp(q.stream, y)
  <2>1. 200 \in Int
    OBVIOUS
  <2> QED
    BY <1>0, <1>9, <2>1, Zenon DEF Stream, SameStream, StreamDown, StreamUp
<1>11. z = SetStream(p2, y)
  BY <1>3, <1>7, <1>8, <1>9, Zenon DEF connected, svr_tcp_egress_respond, SetStream
<1>12. p2 \in Handler
  BY <1>8, Zenon DEF Whole
<1>13. /\ z \in Handler /\ z.flow = x /\ z.stream = y /\ z.reg = p2.reg /\ z.erring = q.erring
       /\ Outer(p2, z)
  BY <1>8, <1>10, <1>11, <1>12, RebuiltStream
<1>14. Outer(q, z)
  BY <1>4, <1>8, <1>13, OuterChain, Zenon
<1>15. Down(x, y) /\ Up(x, y)
  BY <1>2, <1>10, DownKept, UpKept, Zenon DEF Whole
<1>16. Whole(z)
  BY <1>2, <1>10, <1>13, <1>14, <1>15, WholeAgain, Zenon
<1>17. Polled(z)
  BY <1>8, <1>13, Zenon DEF Polled, Outer
<1> QED
  BY <1>2, <1>13, <1>14, <1>16, <1>17, Zenon

\* svr_tcp_egress_on_connected: ACTIVE, answered, and the body that waited passed on.
LEMMA OnConnectedWhole ==
    ASSUME NEW q, Whole(q), NEW room \in Nat, NEW z, z = svr_tcp_egress_on_connected(q, room)
    PROVE  Whole(z) /\ Polled(z) /\ Outer(q, z) /\ z.flow.state = "ACTIVE" /\ z.erring = q.erring
<1>1. PICK p : p = connected(q)
  BY Zenon
<1>2. Whole(p) /\ Polled(p) /\ Outer(q, p) /\ p.flow.state = "ACTIVE" /\ p.erring = q.erring
  BY <1>1, ConnectedWhole, Zenon
<1>3. z = svr_tcp_egress_drain_body(p, room)
  BY <1>1, Zenon DEF svr_tcp_egress_on_connected
<1>4. Whole(z) /\ Polled(z) /\ Outer(p, z) /\ z.flow.state = "ACTIVE" /\ z.erring = p.erring
  BY <1>2, <1>3, DrainWhole, Zenon
<1> QED
  BY <1>2, <1>4, OuterChain, Zenon

\* svr_tcp_egress_on_h3_writable sends the stash of the way back.
LEMMA WritableWhole ==
    ASSUME NEW q, Whole(q), Polled(q), NEW room \in Nat, NEW ok \in BOOLEAN,
           NEW z, z = h3_writable(q, room, ok)
    PROVE  Whole(z) /\ Polled(z) /\ Outer(q, z) /\ z.erring = q.erring
<1>0. q \in Handler /\ q.flow \in Flow /\ q.stream \in Stream
  BY WholeParts, Zenon
<1>1. PICK h : h = q.flow.uplink_stash
  BY Zenon
<1>2. /\ h \in Units /\ q.stream.up \in Units /\ q.flow.inbox \in Units
      /\ Joined(q.stream.up, h, q.flow.inbox, q.flow.nrecv)
      /\ q.flow.uplink_withheld <=> h # <<>>
  BY <1>0, <1>1, Zenon DEF Flow, Stream, Whole, Up
<1>3. Len(h) \in Nat /\ (h = <<>> <=> Len(h) = 0)
  BY <1>2, LenIs, Blank, Zenon DEF Units
<1>4. PICK k : k = Taken(room, Len(h))
  BY Zenon
<1>5. /\ k \in 0..Len(h)
      /\ ~(k < Len(h)) => k = Len(h)
      /\ k < Len(h) => h # <<>>
  BY <1>3, <1>4 DEF Taken
<1>6. PICK r : r = SubSeq(h, k + 1, Len(h))
  BY Zenon
<1>7. /\ q.stream.up \o SubSeq(h, 1, k) \in Units /\ r \in Units
      /\ Joined(q.stream.up \o SubSeq(h, 1, k), r, q.flow.inbox, q.flow.nrecv)
  BY <1>2, <1>5, <1>6, JoinedFlushes, Zenon
<1>8. r = <<>> <=> ~(k < Len(h))
  <2>1. h \in Seq(Nat)
    BY <1>2, Zenon DEF Units
  <2>2. Len(r) = Len(h) - k
    <3>1. Len(h) \in k..Len(h)
      BY <1>3, <1>5
    <3> QED
      BY <2>1, <1>5, <1>6, <3>1, PieceIs, Zenon
  <2>3. r \in Seq(Nat)
    BY <1>7, Zenon DEF Units
  <2>4. r = <<>> <=> Len(r) = 0
    BY <2>3, Blank, Zenon
  <2> QED
    BY <2>2, <2>4, <1>3, <1>5
<1>9. PICK x : x = [q.flow EXCEPT !.uplink_stash = r, !.expired = @ /\ k = 0]
  BY Zenon
<1>10. /\ x \in Flow /\ SameFlow(q.flow, x) /\ FlowDown(q.flow, x) /\ x.state = q.flow.state
       /\ x.inbox = q.flow.inbox /\ x.nrecv = q.flow.nrecv /\ x.target_eof = q.flow.target_eof
       /\ x.uplink_stash = r /\ x.uplink_withheld = q.flow.uplink_withheld
       /\ x.eof_seen = q.flow.eof_seen
  <2>1. (q.flow.expired /\ k = 0) \in Flags
    BY Flagged, Zenon
  <2> QED
    BY <1>0, <1>7, <1>9, <2>1, Zenon DEF Flow, SameFlow, FlowDown
<1>11. PICK y : y = [q.stream EXCEPT !.up = @ \o SubSeq(h, 1, k)]
  BY Zenon
<1>12. /\ y \in Stream /\ SameStream(q.stream, y) /\ StreamDown(q.stream, y)
       /\ y.up = q.stream.up \o SubSeq(h, 1, k) /\ y.up_fin = q.stream.up_fin
  BY <1>0, <1>7, <1>11, Zenon DEF Stream, SameStream, StreamDown
<1>13. PICK p : p = [q EXCEPT !.flow.uplink_stash = r, !.flow.expired = @ /\ k = 0,
                              !.stream.up = @ \o SubSeq(h, 1, k)]
  BY Zenon
<1>14. /\ p \in Handler /\ p.flow = x /\ p.stream = y
       /\ p.reg = q.reg /\ p.erring = q.erring /\ Outer(q, p)
  <2>1. p = SetBoth(q, x, y)
    BY <1>0, <1>9, <1>11, <1>13, Zenon DEF SetBoth, Handler
  <2> QED
    BY <1>0, <1>10, <1>12, <2>1, RebuiltBoth
<1>15. Down(x, y)
  BY <1>10, <1>12, DownKept, Zenon DEF Whole
<1>16. CASE k < Len(h)
  <2>1. z = p
    BY <1>1, <1>4, <1>6, <1>13, <1>16, Zenon DEF h3_writable
  <2>2. Up(x, y)
    <3>1. ~q.stream.up_fin
      BY <1>1, <1>5, <1>16, Zenon DEF Whole, Up
    <3> QED
      BY <1>2, <1>5, <1>7, <1>8, <1>10, <1>12, <1>16, <3>1, Zenon DEF Whole, Up
  <2>3. Whole(p)
    BY <1>10, <1>12, <1>14, <1>15, <2>2, WholeAgain, Zenon
  <2>4. Polled(p)
    BY <1>1, <1>5, <1>8, <1>10, <1>14, <1>16, PolledKept, Zenon DEF Outer, FlowDown
  <2> QED
    BY <1>14, <2>1, <2>3, <2>4, Zenon
<1>17. CASE ~(k < Len(h)) /\ q.flow.uplink_withheld
  <2>1. PICK x2 : x2 = [x EXCEPT !.uplink_withheld = FALSE]
    BY Zenon
  <2>2. /\ x2 \in Flow /\ SameFlow(x, x2) /\ FlowDown(x, x2) /\ x2.state = x.state
        /\ x2.inbox = x.inbox /\ x2.nrecv = x.nrecv /\ x2.target_eof = x.target_eof
        /\ x2.uplink_stash = r /\ x2.uplink_withheld = FALSE /\ x2.eof_seen = x.eof_seen
    BY <1>10, <2>1, Flagged, Zenon DEF Flow, SameFlow, FlowDown
  <2>3. PICK p2 : p2 = [p EXCEPT !.flow.uplink_withheld = FALSE]
    BY Zenon
  <2>4. /\ p2 \in Handler /\ p2.flow = x2 /\ p2.stream = y
        /\ p2.reg = q.reg /\ p2.erring = q.erring /\ Outer(p, p2)
    <3>1. p2 = SetFlow(p, x2)
      BY <1>14, <2>1, <2>3, Zenon DEF SetFlow
    <3> QED
      BY <1>14, <2>2, <3>1, RebuiltFlow
  <2>5. Down(x2, y)
    BY <1>15, <2>2, DownKept, Zenon DEF StreamDown
  <2>6. Up(x2, y)
    BY <1>7, <1>8, <1>10, <1>12, <1>17, <2>2, Zenon DEF Whole, Up
  <2>7. Whole(p2) /\ Outer(q, p2)
    <3>1. SameFlow(q.flow, x2)
      BY <1>10, <2>2, Zenon DEF SameFlow
    <3>2. Outer(q, p2)
      BY <1>14, <2>4, OuterChain, Zenon
    <3> QED
      BY <1>12, <2>4, <2>5, <2>6, <3>1, <3>2, WholeAgain, Zenon
  <2>8. PICK p3 : p3 = svr_tcp_egress_update_fd_interest(p2)
    BY Zenon
  <2>9. /\ Whole(p3) /\ Polled(p3) /\ Outer(p2, p3) /\ p3.erring = p2.erring
        /\ p3.flow = x2
    <3>1. CASE x2.state = "ACTIVE"
      BY <2>4, <2>7, <2>8, <3>1, InterestUpdated, Zenon
    <3>2. CASE x2.state # "ACTIVE"
      <4>1. p3 = p2
        BY <2>4, <2>8, <3>2, Zenon DEF svr_tcp_egress_update_fd_interest
      <4>2. x2.state = "CONNECTING"
        BY <2>2, <3>2, Zenon DEF Flow
      <4>3. Polled(p2)
        BY <1>10, <1>14, <2>2, <2>4, <4>2, Zenon DEF Polled, Interest, Outer
      <4> QED
        BY <2>4, <2>7, <4>1, <4>3, Zenon DEF Outer
    <3> QED
      BY <3>1, <3>2, Zenon
  <2>10. Outer(q, p3)
    BY <2>7, <2>9, OuterChain, Zenon
  <2>12. CASE q.flow.eof_seen
    <3>0. z = svr_tcp_egress_try_uplink_fin(p3, ok)
      BY <1>1, <1>4, <1>6, <1>13, <1>17, <2>3, <2>8, <2>12, Zenon DEF h3_writable
    <3>1. p3.flow.eof_seen /\ p3.flow.uplink_stash = <<>>
      BY <1>8, <1>10, <1>17, <2>2, <2>9, <2>12, Zenon
    <3>2. Whole(z) /\ Outer(p3, z) /\ z.erring = p3.erring /\ Polled(z)
      BY <2>9, <3>0, <3>1, FinWhole, Zenon
    <3> QED
      BY <2>4, <2>9, <2>10, <3>2, OuterChain, Zenon
  <2>13. CASE ~q.flow.eof_seen
    <3>1. z = p3
      BY <1>1, <1>4, <1>6, <1>13, <1>17, <2>3, <2>8, <2>13, Zenon DEF h3_writable
    <3> QED
      BY <2>4, <2>9, <2>10, <3>1, Zenon
  <2> QED
    BY <2>12, <2>13, Zenon
<1>18. CASE ~(k < Len(h)) /\ ~q.flow.uplink_withheld
  <2>1. z = IF q.flow.eof_seen THEN svr_tcp_egress_try_uplink_fin(q, ok) ELSE q
    BY <1>1, <1>4, <1>18, Zenon DEF h3_writable
  <2>2. CASE q.flow.eof_seen
    <3>1. q.flow.uplink_stash = <<>>
      BY <1>1, <1>2, <1>18, Zenon
    <3> QED
      BY <2>1, <2>2, <3>1, FinWhole, Zenon
  <2>3. CASE ~q.flow.eof_seen
    BY <2>1, <2>3, Zenon DEF Outer
  <2> QED
    BY <2>2, <2>3, Zenon
<1> QED
  BY <1>16, <1>17, <1>18, Zenon

(***************************************************************************)
(* The end and the beginning of a flow                                     *)
(***************************************************************************)

\* A handler record whose flow is gone.
Ended ==
    [addr : EgAddrs, sid : EgStreams, num : EgFds, flow : {NoEgFlow}, stream : Stream,
     reg : {Unregistered}, conn : Int, fds : Int, opened : Nat, erring : Failure,
     errno : {"EAGAIN", "other"}]

\* The flow of q has been destroyed.
Gone(q, z) ==
    /\ z \in Ended
    /\ z.addr = q.addr /\ z.sid = q.sid /\ z.num = q.num
    /\ z.conn = q.conn - 1 /\ z.fds = q.fds - 1 /\ z.opened = q.opened
    /\ z.stream.slot = "none" /\ z.stream.open = q.stream.open
    /\ z.erring = q.erring

\* svr_tcp_egress_flow_destroy drops the registration and both counters.
LEMMA DestroyGone ==
    ASSUME NEW q, q \in Handler, NEW z, z = svr_tcp_egress_flow_destroy(q)
    PROVE  Gone(q, z)
<1>1. PICK c : c = q.conn - 1
  BY Zenon
<1>2. PICK d : d = q.fds - 1
  BY Zenon
<1>3. q.conn \in Int /\ q.fds \in Int /\ q.stream \in Stream
  BY Zenon DEF Handler
<1>4. c \in Int /\ d \in Int
  BY <1>1, <1>2, <1>3
<1>5. PICK y : y = [q.stream EXCEPT !.slot = "none"]
  BY Zenon
<1>6. y \in Stream /\ y.slot = "none" /\ y.open = q.stream.open
  BY <1>3, <1>5, Zenon DEF Stream
<1>7. PICK u : u = [q EXCEPT !.reg = Unregistered]
  BY Zenon
<1>8. z = [u EXCEPT !.flow = NoEgFlow, !.conn = @ - 1, !.fds = @ - 1, !.stream.slot = "none"]
  BY <1>7, Zenon DEF svr_tcp_egress_flow_destroy, svr_egress_fd_unregister
<1>9. /\ u.conn = q.conn /\ u.fds = q.fds /\ u.stream = q.stream /\ u.reg = Unregistered
      /\ u.addr = q.addr /\ u.sid = q.sid /\ u.num = q.num /\ u.opened = q.opened
      /\ u.erring = q.erring /\ u.errno = q.errno
      /\ u \in [addr : EgAddrs, sid : EgStreams, num : EgFds, flow : Flow, stream : Stream,
                reg : {Unregistered}, conn : Int, fds : Int, opened : Nat, erring : Failure,
                errno : {"EAGAIN", "other"}]
  BY <1>7, Zenon DEF Handler
<1>10. z = [u EXCEPT !.flow = NoEgFlow, !.conn = c, !.fds = d, !.stream = y]
  BY <1>1, <1>2, <1>5, <1>8, <1>9, Zenon
<1>11. PICK T : T = [addr : EgAddrs, sid : EgStreams, num : EgFds, flow : Flow, stream : Stream,
                  reg : {Unregistered}, conn : Int, fds : Int, opened : Nat, erring : Failure,
                  errno : {"EAGAIN", "other"}]
  BY Zenon
<1>12. u \in T
  BY <1>9, <1>11, Zenon
<1>13. /\ z.conn = c /\ z.fds = d /\ z.stream = y /\ z.flow = NoEgFlow
       /\ z.addr = u.addr /\ z.sid = u.sid /\ z.num = u.num /\ z.opened = u.opened
       /\ z.erring = u.erring
  BY <1>11, <1>12, <1>10, Zenon
<1>14. z \in Ended
  BY <1>4, <1>6, <1>9, <1>10, Zenon DEF Ended
<1> QED
  BY <1>1, <1>2, <1>6, <1>9, <1>13, <1>14, Zenon DEF Gone

\* svr_tcp_egress_abort also resets the stream.
LEMMA AbortGone ==
    ASSUME NEW q, q \in Handler, NEW z, z = svr_tcp_egress_abort(q)
    PROVE  Gone(q, z)
<1>1. PICK d : d = svr_tcp_egress_flow_destroy(q)
  BY Zenon
<1>2. Gone(q, d)
  BY <1>1, DestroyGone, Zenon
<1>3. z = [d EXCEPT !.stream.resp = -1, !.stream.body = <<>>]
  BY <1>1, Zenon DEF svr_tcp_egress_abort, xqc_h3_request_close
<1>4. d.stream \in Stream /\ d \in Ended
  BY <1>2, Zenon DEF Gone, Ended
<1>5. PICK y : y = [d.stream EXCEPT !.resp = -1, !.body = <<>>]
  BY Zenon
<1>6. -1 \in Int /\ <<>> \in Units
  BY EmptyIs DEF Units
<1>7. y \in Stream /\ y.slot = d.stream.slot /\ y.open = d.stream.open
  BY <1>4, <1>5, <1>6, Zenon DEF Stream
<1>8. z = [d EXCEPT !.stream = y]
  BY <1>3, <1>5, Zenon
<1>9. /\ z \in Ended /\ z.stream = y /\ z.addr = d.addr /\ z.sid = d.sid /\ z.num = d.num
      /\ z.conn = d.conn /\ z.fds = d.fds /\ z.opened = d.opened /\ z.erring = d.erring
  BY <1>4, <1>7, <1>8, Zenon DEF Ended
<1> QED
  BY <1>2, <1>7, <1>9, Zenon DEF Gone

\* svr_tcp_egress_fail_connect answers first.
LEMMA FailConnectGone ==
    ASSUME NEW q, q \in Handler, NEW status \in Int, NEW z,
           z = svr_tcp_egress_fail_connect(q, status)
    PROVE  Gone(q, z)
<1>1. q.stream \in Stream
  BY Zenon DEF Handler
<1>2. PICK y : y = [q.stream EXCEPT !.resp = status]
  BY Zenon
<1>3. y \in Stream /\ y.open = q.stream.open
  BY <1>1, <1>2, Zenon DEF Stream
<1>4. PICK p : p = SetStream(q, y)
  BY Zenon
<1>5. p \in Handler /\ p.stream = y /\ Outer(q, p) /\ p.erring = q.erring
  BY <1>3, <1>4, RebuiltStream
<1>6. z = svr_tcp_egress_flow_destroy(p)
  BY <1>2, <1>4, Zenon DEF svr_tcp_egress_fail_connect, svr_tcp_egress_respond, SetStream
<1>7. Gone(p, z)
  BY <1>5, <1>6, DestroyGone, Zenon
<1> QED
  BY <1>3, <1>5, <1>7, Zenon DEF Gone, Outer

\* What follows an end in the handlers: errno, the failure mark or the stream.
LEMMA GoneAgain ==
    ASSUME NEW q, NEW d, Gone(q, d), NEW z,
           \/ z = [d EXCEPT !.errno = "other"]
           \/ z = [d EXCEPT !.stream.resp = -1]
    PROVE  Gone(q, z)
<1>0. d \in Ended /\ d.stream \in Stream
  BY Zenon DEF Gone, Ended
<1>1. CASE z = [d EXCEPT !.errno = "other"]
  <2>1. /\ z \in Ended /\ z.stream = d.stream /\ z.addr = d.addr /\ z.sid = d.sid
        /\ z.num = d.num /\ z.conn = d.conn /\ z.fds = d.fds /\ z.opened = d.opened
        /\ z.erring = d.erring
    BY <1>0, <1>1, Zenon DEF Ended
  <2> QED
    BY <2>1, Zenon DEF Gone
<1>2. CASE z = [d EXCEPT !.stream.resp = -1]
  <2>1. PICK y : y = [d.stream EXCEPT !.resp = -1]
    BY Zenon
  <2>2. -1 \in Int
    OBVIOUS
  <2>3. y \in Stream /\ y.slot = d.stream.slot /\ y.open = d.stream.open
    BY <1>0, <2>1, <2>2, Zenon DEF Stream
  <2>4. z = [d EXCEPT !.stream = y]
    BY <1>2, <2>1, Zenon
  <2>5. /\ z \in Ended /\ z.stream = y /\ z.addr = d.addr /\ z.sid = d.sid /\ z.num = d.num
        /\ z.conn = d.conn /\ z.fds = d.fds /\ z.opened = d.opened /\ z.erring = d.erring
    BY <1>0, <2>3, <2>4, Zenon DEF Ended
  <2> QED
    BY <2>3, <2>5, Zenon DEF Gone
<1> QED
  BY <1>1, <1>2, Zenon

(***************************************************************************)
(* The inductive invariant                                                 *)
(***************************************************************************)

\* A live flow at address a with its stream and the registration of its descriptor.
Sound(a, ef, st, reg) ==
    /\ ef \in Flow /\ st.slot = a /\ st.open
    /\ Down(ef, st) /\ Up(ef, st)
    /\ reg = Interest(a, ef)

EgTypeOK ==
    /\ eg_case \in EgCases
    /\ eg_stream \in [EgStreams -> Stream]
    /\ eg_flow \in [EgAddrs -> Flow \cup {NoEgFlow}]
    /\ eg_fd \in [EgFds -> Registration]
    /\ eg_opened \in Nat
    /\ eg_erring \in Failure
    /\ eg_errno \in {"EAGAIN", "other"}

\* Every live flow is sound, every stream and descriptor points at a flow that
\* points back, a stream not yet open is blank.
EgLinked ==
    /\ \A a \in EgAddrs : eg_flow[a].live =>
          Sound(a, eg_flow[a], eg_stream[eg_flow[a].stream], eg_fd[eg_flow[a].fd])
    /\ \A s \in EgStreams : eg_stream[s].slot # "none" =>
          eg_flow[eg_stream[s].slot].live /\ eg_flow[eg_stream[s].slot].stream = s
    /\ \A f \in EgFds : eg_fd[f].ctx # "none" =>
          eg_flow[eg_fd[f].ctx].live /\ eg_flow[eg_fd[f].ctx].fd = f
    /\ \A s \in EgStreams : ~eg_stream[s].open => eg_stream[s] = NoStream

\* What the steps need of counting: facts about the finite set EgAddrs, which
\* change with no step.  They follow from EgressAssumption (CountingHolds).
Counting ==
    /\ \A S \in SUBSET EgAddrs : Cardinality(S) \in Nat
    /\ \A S \in SUBSET EgAddrs : \A a \in EgAddrs \ S :
          Cardinality(S \cup {a}) = Cardinality(S) + 1
    /\ \A S \in SUBSET EgAddrs : \A A \in SUBSET S :
          Cardinality(S \ A) = Cardinality(S) - Cardinality(A)
    /\ \A S \in SUBSET EgAddrs : \A a \in S : Cardinality(S \ {a}) = Cardinality(S) - 1
    /\ \A S \in SUBSET EgAddrs : S # EgAddrs =>
          \A F \in [S -> EgFds] :
             \E g \in EgFds : /\ \A b \in S : F[b] # g
                             /\ \A h \in EgFds : (\A b \in S : F[b] # h) => g <= h

\* The counters are exact.
EgCounted ==
    /\ Counting
    /\ eg_conn_count = Cardinality(EgLive)
    /\ eg_fd_count = Cardinality(EgLive)

EgInv == EgTypeOK /\ EgLinked /\ EgCounted
=============================================================================
