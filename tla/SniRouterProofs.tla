-------------------------- MODULE SniRouterProofs --------------------------
(***************************************************************************)
(* Proofs about the SNI router (SniRouter): every datagram a client sends  *)
(* leaves once and in order, and a connection whose entry was not taken    *)
(* away goes to one place, the one its server name asks for, with the      *)
(* PROXY header first.  A step of the router works on the record of one    *)
(* peer (its table entry, what left for it and its client) and commits it; *)
(* so each function of sni_router.c is shown to keep the invariant of one  *)
(* peer, PeerInv, and that a committed record keeps the whole state is     *)
(* shown once.                                                             *)
(***************************************************************************)
EXTENDS SniRouter, TLAPS

Ids == {"orig", "retry", "server", "none"}
Decisions == {"PENDING", "ACCEPT", "FALLBACK"}
Dgram == [n : Nat, conn : Nat, dcid : Nat \X Ids, opens : BOOLEAN, type : {"initial", "other"},
          frags : SUBSET SnFragments]
SentOut == [n : Nat, conn : Nat, to : {"engine", "fallback", "dropped"}, pp : BOOLEAN]
QuicClient == [conns : Nat, key : Ids, dcid : Ids, sent : Nat, lost : BOOLEAN,
               started : BOOLEAN, server : {"quiet", "retried", "tokened", "answered"}]
Entry == [live : {TRUE}, decision : Decisions, fd : BOOLEAN, proxy_sent : BOOLEAN,
          last_seen : Nat, initial_dcid : Nat \X Ids, server_scid : Nat \X Ids,
          crypto : SUBSET SnFragments, pending : Seq(Dgram)]
PeerState == [conn : Entry \union {NoEntry}, out : Seq(SentOut), client : QuicClient]

\* A peer with an entry.
Tracked == {s \in PeerState : s.conn \in Entry}

\* Entry d differs from c only in what a send or a decision writes.
Alike(c, d) ==
    d \in Entry /\ d.initial_dcid = c.initial_dcid /\ d.server_scid = c.server_scid

-----------------------------------------------------------------------------
(* The inductive invariant.                                                *)

HeldBy(c) == IF c.live THEN c.pending ELSE <<>>

Members(q) == {q[i] : i \in 1..Len(q)}

\* What left and what is held are the datagrams sent, in order.
Numbered(out, held, sent) ==
    /\ Len(out) + Len(held) = sent
    /\ \A i \in 1..Len(out) : out[i].n = i
    /\ \A i \in 1..Len(held) : held[i].n = Len(out) + i

\* What an entry holds is of the connection that it is of, and waits for the
\* decision; the socket is opened after it.
EntryGood(c) ==
    /\ c.server_scid[1] <= c.initial_dcid[1]
    /\ \A d \in Members(c.pending) : d.conn = c.initial_dcid[1]
    /\ c.decision # "PENDING" => c.pending = <<>>
    /\ c.fd => c.decision # "PENDING"

\* The datagrams are accounted for, and none is of a connection still to come.
Placed(s) ==
    /\ s \in PeerState /\ s.client.conns # 0
    /\ Numbered(s.out, HeldBy(s.conn), s.client.sent)
    /\ \A o \in Members(s.out) : o.conn <= s.client.conns
    /\ s.conn.live => EntryGood(s.conn) /\ s.conn.initial_dcid[1] <= s.client.conns

\* Nothing of connection k has left, or only to the engine, or nothing to it.
NoneLeft(out, k) == \A o \in Members(out) : o.conn # k
AllAccepted(out, k) == \A o \in Members(out) : o.conn = k => o.to = "engine"
NoneAccepted(out, k) == \A o \in Members(out) : o.conn = k => o.to # "engine"

\* A client that has not sent anything on its connection.
Fresh(s) ==
    /\ s.conn.live => s.conn.initial_dcid[1] < s.client.conns
    /\ NoneLeft(s.out, s.client.conns)
    /\ s.client.dcid = "orig" /\ s.client.key = "orig"

\* A connection whose name is served.
Served(s) == s.conn.decision # "FALLBACK" /\ AllAccepted(s.out, s.client.conns)

\* The one id that a fallback server takes.
ServerId == IF sn_case.ids = "noretry" THEN "server" ELSE "retry"

\* The client uses an id that the router knows.
IdsKnown(s) ==
    /\ s.conn.initial_dcid = <<s.client.conns, "orig">>
    /\ s.conn.server_scid \in {NoId, <<s.client.conns, ServerId>>}
    /\ \/ s.client.dcid = "orig"
       \/ s.client.dcid = ServerId /\ s.conn.server_scid = <<s.client.conns, ServerId>>

\* Nothing of it has left before the decision.
Undecided(s) ==
    /\ s.client.dcid = "orig" /\ s.client.key = "orig" /\ ~s.conn.proxy_sent
    /\ NoneLeft(s.out, s.client.conns)

\* The first datagram of connection k that the socket took carries the header.
ToFallback(out, k, i) == out[i].conn = k /\ out[i].to = "fallback"

Headed(out, k, proxy_sent) ==
    /\ proxy_sent = (sn_case.pp /\ \E i \in 1..Len(out) : ToFallback(out, k, i))
    /\ \A i \in 1..Len(out) :
         ToFallback(out, k, i) =>
            out[i].pp = (sn_case.pp /\ \A j \in 1..(i - 1) : ~ToFallback(out, k, j))

\* A connection whose name is not served.
Unserved(s) ==
    /\ IdsKnown(s)
    /\ s.conn.decision # "ACCEPT"
    /\ s.conn.decision = "PENDING" => Undecided(s)
    /\ NoneAccepted(s.out, s.client.conns)
    /\ Headed(s.out, s.client.conns, s.conn.proxy_sent)

Routed(p, s) ==
    /\ s.conn.live /\ s.conn.initial_dcid[1] = s.client.conns
    /\ IF sni_router_match(Name(p, s.client.conns)) THEN Served(s) ELSE Unserved(s)

\* Nothing is claimed of a client that the router gave up, or of one behind a
\* fallback server that takes a new id after its Retry.
Excused(s) == s.client.lost \/ sn_case.ids = "fresh"

PeerInv(p, s) ==
    Placed(s) /\ IF s.client.started THEN Excused(s) \/ Routed(p, s) ELSE Fresh(s)

SniInv ==
    /\ sn_case \in SnCases /\ sn_now \in Nat
    /\ sn_conn = [p \in SnPeers |-> sn_conn[p]]
    /\ sn_client = [p \in SnPeers |-> sn_client[p]]
    /\ sn_out = [p \in SnPeers |-> sn_out[p]]
    /\ \A p \in SnPeers : PeerInv(p, Peer(p))
    /\ Cardinality(Entries(SnCur)) <= sn_max_tracked_conns

-----------------------------------------------------------------------------
(* What the router's operations write.                                     *)

\* One field of what is known of a peer is written.
PutConn(s, c) == [s EXCEPT !.conn = c]
PutOut(s, o) == [s EXCEPT !.out = o]
PutClient(s, cl) == [s EXCEPT !.client = cl]

\* The others stay.
LEMMA ConnWritten ==
    ASSUME NEW s \in PeerState, NEW c \in Entry
    PROVE  /\ PutConn(s, c) \in Tracked /\ PutConn(s, c).conn = c
           /\ PutConn(s, c).out = s.out /\ PutConn(s, c).client = s.client
  BY DEF PeerState, Tracked, PutConn

\* So for the datagrams that left.
LEMMA OutWritten ==
    ASSUME NEW s \in PeerState, NEW o \in Seq(SentOut)
    PROVE  /\ PutOut(s, o) \in PeerState /\ PutOut(s, o).conn = s.conn
           /\ PutOut(s, o).out = o /\ PutOut(s, o).client = s.client
  BY DEF PeerState, PutOut

\* So for the client.
LEMMA ClientWritten ==
    ASSUME NEW s \in PeerState, NEW cl \in QuicClient
    PROVE  /\ PutClient(s, cl) \in PeerState /\ PutClient(s, cl).conn = s.conn
           /\ PutClient(s, cl).out = s.out /\ PutClient(s, cl).client = cl
  BY DEF PeerState, PutClient

Decided(s, x) == [s EXCEPT !.conn.decision = x]
SeenAt(s, t) == [s EXCEPT !.conn.last_seen = t]

\* A decision.
LEMMA DecidedIs ==
    ASSUME NEW s \in Tracked, NEW x \in Decisions, NEW r, r = Decided(s, x)
    PROVE  /\ r \in Tracked /\ r.out = s.out /\ r.client = s.client
           /\ Alike(s.conn, r.conn) /\ r.conn.decision = x /\ r.conn.pending = s.conn.pending
           /\ r.conn.fd = s.conn.fd /\ r.conn.proxy_sent = s.conn.proxy_sent
  <1>1. PICK c : c = [s.conn EXCEPT !.decision = x]
    BY Zenon
  <1>2. s.conn \in Entry /\ s \in PeerState
    BY DEF Tracked
  <1>3. /\ Alike(s.conn, c) /\ c.decision = x /\ c.pending = s.conn.pending
        /\ c.fd = s.conn.fd /\ c.proxy_sent = s.conn.proxy_sent /\ c \in Entry
    BY <1>1, <1>2, Zenon DEF Entry, Alike
  <1>4. r = PutConn(s, c)
    BY <1>1, Zenon DEF PutConn, Decided, SeenAt
  <1>5. r \in Tracked /\ r.conn = c /\ r.out = s.out /\ r.client = s.client
    <2>1. c \in Entry
      BY <1>3, Zenon
    <2>2. /\ PutConn(s, c) \in Tracked /\ PutConn(s, c).conn = c
          /\ PutConn(s, c).out = s.out /\ PutConn(s, c).client = s.client
      BY <1>2, <2>1, ConnWritten, Zenon
    <2> QED BY <1>4, <2>2, Zenon
  <1> QED BY <1>3, <1>5, Zenon

\* The time of the last datagram.
LEMMA SeenIs ==
    ASSUME NEW s \in Tracked, NEW t \in Nat, NEW r, r = SeenAt(s, t)
    PROVE  /\ r \in Tracked /\ r.out = s.out /\ r.client = s.client
           /\ Alike(s.conn, r.conn) /\ r.conn.decision = s.conn.decision
           /\ r.conn.pending = s.conn.pending
           /\ r.conn.fd = s.conn.fd /\ r.conn.proxy_sent = s.conn.proxy_sent
  <1>1. PICK c : c = [s.conn EXCEPT !.last_seen = t]
    BY Zenon
  <1>2. s.conn \in Entry /\ s \in PeerState
    BY DEF Tracked
  <1>3. /\ Alike(s.conn, c) /\ c.decision = s.conn.decision /\ c.pending = s.conn.pending
        /\ c.fd = s.conn.fd /\ c.proxy_sent = s.conn.proxy_sent /\ c \in Entry
    BY <1>1, <1>2, Zenon DEF Entry, Alike
  <1>4. r = PutConn(s, c)
    BY <1>1, Zenon DEF PutConn, Decided, SeenAt
  <1>5. r \in Tracked /\ r.conn = c /\ r.out = s.out /\ r.client = s.client
    <2>1. c \in Entry
      BY <1>3, Zenon
    <2>2. /\ PutConn(s, c) \in Tracked /\ PutConn(s, c).conn = c
          /\ PutConn(s, c).out = s.out /\ PutConn(s, c).client = s.client
      BY <1>2, <2>1, ConnWritten, Zenon
    <2> QED BY <1>4, <2>2, Zenon
  <1> QED BY <1>3, <1>5, Zenon

\* A datagram is held.
LEMMA HeldIs ==
    ASSUME NEW s \in Tracked, NEW d \in Dgram, sn_now \in Nat, NEW r, r = pending_append(s, d)
    PROVE  /\ r \in Tracked /\ r.out = s.out /\ r.client = s.client
           /\ Alike(s.conn, r.conn) /\ r.conn.decision = s.conn.decision
           /\ r.conn.pending = Append(s.conn.pending, d)
           /\ r.conn.fd = s.conn.fd /\ r.conn.proxy_sent = s.conn.proxy_sent
  <1>1. PICK h : h = Append(s.conn.pending, d)
    BY Zenon
  <1>2. s.conn \in Entry /\ s \in PeerState
    BY DEF Tracked
  <1>3. h \in Seq(Dgram)
    <2>1. s.conn.pending \in Seq(Dgram)
      BY <1>2, Zenon DEF Entry
    <2> QED BY <1>1, <2>1
  <1>4. PICK c : c = [s.conn EXCEPT !.pending = h, !.last_seen = sn_now]
    OBVIOUS
  <1>5. /\ Alike(s.conn, c) /\ c.decision = s.conn.decision /\ c.pending = h
        /\ c.fd = s.conn.fd /\ c.proxy_sent = s.conn.proxy_sent /\ c \in Entry
    BY <1>2, <1>3, <1>4, Zenon DEF Entry, Alike
  <1>6. r = PutConn(s, c)
    <2>1. r = [s EXCEPT !.conn.pending = h, !.conn.last_seen = sn_now]
      BY <1>1, <1>2, Zenon DEF pending_append
    <2> QED BY <1>2, <1>4, <2>1, Zenon DEF PeerState, Entry, PutConn
  <1>7. r \in Tracked /\ r.conn = c /\ r.out = s.out /\ r.client = s.client
    <2>1. c \in Entry
      BY <1>5, Zenon
    <2>2. /\ PutConn(s, c) \in Tracked /\ PutConn(s, c).conn = c
          /\ PutConn(s, c).out = s.out /\ PutConn(s, c).client = s.client
      BY <1>2, <2>1, ConnWritten, Zenon
    <2> QED BY <1>6, <2>2, Zenon
  <1> QED BY <1>1, <1>5, <1>7, Zenon

\* Its fragments are collected.
LEMMA CollectedIs ==
    ASSUME NEW s \in Tracked, NEW d \in Dgram, NEW r, r = collect_crypto_frames(s, d)
    PROVE  /\ r \in Tracked /\ r.out = s.out /\ r.client = s.client
           /\ Alike(s.conn, r.conn) /\ r.conn.decision = s.conn.decision
           /\ r.conn.pending = s.conn.pending
           /\ r.conn.fd = s.conn.fd /\ r.conn.proxy_sent = s.conn.proxy_sent
  <1>1. PICK x : x = s.conn.crypto \union d.frags
    BY Zenon
  <1>2. s.conn \in Entry /\ s \in PeerState
    BY DEF Tracked
  <1>3. x \in SUBSET SnFragments
    <2>1. s.conn.crypto \in SUBSET SnFragments /\ d.frags \in SUBSET SnFragments
      BY <1>2, Zenon DEF Entry, Dgram
    <2> QED BY <1>1, <2>1, Zenon
  <1>4. PICK c : c = [s.conn EXCEPT !.crypto = x]
    BY Zenon
  <1>5. /\ Alike(s.conn, c) /\ c.decision = s.conn.decision /\ c.pending = s.conn.pending
        /\ c.fd = s.conn.fd /\ c.proxy_sent = s.conn.proxy_sent /\ c \in Entry
    BY <1>2, <1>3, <1>4, Zenon DEF Entry, Alike
  <1>6. r = PutConn(s, c)
    BY <1>1, <1>4, Zenon DEF collect_crypto_frames, PutConn
  <1>7. r \in Tracked /\ r.conn = c /\ r.out = s.out /\ r.client = s.client
    <2>1. c \in Entry
      BY <1>5, Zenon
    <2>2. /\ PutConn(s, c) \in Tracked /\ PutConn(s, c).conn = c
          /\ PutConn(s, c).out = s.out /\ PutConn(s, c).client = s.client
      BY <1>2, <2>1, ConnWritten, Zenon
    <2> QED BY <1>6, <2>2, Zenon
  <1> QED BY <1>5, <1>7, Zenon

\* The client is remembered as given up.
LEMMA LostIs ==
    ASSUME NEW s \in PeerState, NEW r, r = Lost(s)
    PROVE  /\ r \in PeerState /\ r.conn = s.conn /\ r.out = s.out
           /\ r.client \in QuicClient /\ r.client.lost = TRUE
           /\ r.client.conns = s.client.conns /\ r.client.sent = s.client.sent
           /\ r.client.dcid = s.client.dcid /\ r.client.key = s.client.key
           /\ r.client.started = s.client.started /\ r.client.server = s.client.server
  <1>1. PICK cl : cl = [s.client EXCEPT !.lost = TRUE]
    BY Zenon
  <1>2. s.client \in QuicClient
    BY DEF PeerState
  <1>3. /\ cl \in QuicClient /\ cl.lost = TRUE
        /\ cl.conns = s.client.conns /\ cl.sent = s.client.sent
        /\ cl.dcid = s.client.dcid /\ cl.key = s.client.key
        /\ cl.started = s.client.started /\ cl.server = s.client.server
    BY <1>1, <1>2, Zenon DEF QuicClient
  <1>4. r = PutClient(s, cl)
    BY <1>1, Zenon DEF Lost, PutClient
  <1> QED BY <1>3, <1>4, ClientWritten, Zenon

\* The datagrams that leave for the engine, and those that leave for the
\* fallback server when its header has been sent or not.
Engines(ds) == [i \in DOMAIN ds |-> Left(ds[i], "engine", FALSE)]

TakenOf(ds) == {i \in DOMAIN ds : ds[i].n \notin sn_case.refused}

Fallbacks(ds, proxy_sent) ==
    [i \in DOMAIN ds |->
        IF i \in TakenOf(ds)
        THEN Left(ds[i], "fallback", sn_case.pp /\ ~proxy_sent /\ \A j \in TakenOf(ds) : i <= j)
        ELSE Left(ds[i], "dropped", FALSE)]

\* They are what they were sent as.
LEMMA EnginesAre ==
    ASSUME NEW ds \in Seq(Dgram)
    PROVE  /\ Engines(ds) \in Seq(SentOut) /\ Len(Engines(ds)) = Len(ds)
           /\ \A i \in 1..Len(ds) : /\ Engines(ds)[i].n = ds[i].n
                                    /\ Engines(ds)[i].conn = ds[i].conn
                                    /\ Engines(ds)[i].to = "engine"
  <1>1. DOMAIN ds = 1..Len(ds) /\ Len(ds) \in Nat
    OBVIOUS
  <1>2. ASSUME NEW i \in 1..Len(ds)
        PROVE  /\ Left(ds[i], "engine", FALSE) \in SentOut
               /\ Left(ds[i], "engine", FALSE).n = ds[i].n
               /\ Left(ds[i], "engine", FALSE).conn = ds[i].conn
               /\ Left(ds[i], "engine", FALSE).to = "engine"
    <2>1. ds[i] \in Dgram
      OBVIOUS
    <2>2. ds[i].n \in Nat /\ ds[i].conn \in Nat
      BY <2>1 DEF Dgram
    <2> QED BY <2>2 DEF Left, SentOut
  <1>3. Engines(ds) = [i \in 1..Len(ds) |-> Left(ds[i], "engine", FALSE)]
    BY <1>1, Zenon DEF Engines
  <1> HIDE DEF Left
  <1>4. Engines(ds) \in [1..Len(ds) -> SentOut]
    BY <1>2, <1>3, Zenon
  <1>5. Engines(ds) \in Seq(SentOut) /\ Len(Engines(ds)) = Len(ds)
    BY <1>1, <1>4
  <1> QED BY <1>2, <1>3, <1>5, Zenon

\* The same for the fallback server.
LEMMA FallbacksAre ==
    ASSUME NEW ds \in Seq(Dgram), NEW ps \in BOOLEAN, sn_case.pp \in BOOLEAN
    PROVE  /\ Fallbacks(ds, ps) \in Seq(SentOut) /\ Len(Fallbacks(ds, ps)) = Len(ds)
           /\ \A i \in 1..Len(ds) :
                /\ Fallbacks(ds, ps)[i].n = ds[i].n
                /\ Fallbacks(ds, ps)[i].conn = ds[i].conn
                /\ Fallbacks(ds, ps)[i].to = IF i \in TakenOf(ds) THEN "fallback" ELSE "dropped"
                /\ i \in TakenOf(ds) =>
                     Fallbacks(ds, ps)[i].pp = (sn_case.pp /\ ~ps /\ \A j \in TakenOf(ds) : i <= j)
  <1> DEFINE pp(i) == sn_case.pp /\ ~ps /\ \A j \in TakenOf(ds) : i <= j
             F(i) == IF i \in TakenOf(ds) THEN Left(ds[i], "fallback", pp(i))
                     ELSE Left(ds[i], "dropped", FALSE)
  <1>1. DOMAIN ds = 1..Len(ds) /\ Len(ds) \in Nat
    OBVIOUS
  <1>2. ASSUME NEW i \in 1..Len(ds)
        PROVE  /\ F(i) \in SentOut /\ F(i).n = ds[i].n /\ F(i).conn = ds[i].conn
               /\ F(i).to = IF i \in TakenOf(ds) THEN "fallback" ELSE "dropped"
               /\ i \in TakenOf(ds) => F(i).pp = pp(i)
    <2>1. ds[i] \in Dgram
      OBVIOUS
    <2>2. ds[i].n \in Nat /\ ds[i].conn \in Nat
      BY <2>1 DEF Dgram
    <2>3. PICK b \in BOOLEAN : b = pp(i)
      BY Zenon
    <2>4. CASE i \in TakenOf(ds)
      <3>1. F(i) = [n |-> ds[i].n, conn |-> ds[i].conn, to |-> "fallback", pp |-> b]
        BY <2>3, <2>4, Zenon DEF Left
      <3>2. /\ F(i) \in SentOut /\ F(i).n = ds[i].n /\ F(i).conn = ds[i].conn
            /\ F(i).to = "fallback" /\ F(i).pp = b
        <4> HIDE DEF F
        <4> QED BY <2>2, <3>1 DEF SentOut
      <3> HIDE DEF F
      <3> QED BY <2>3, <2>4, <3>2, Zenon
    <2>5. CASE i \notin TakenOf(ds)
      <3>1. F(i) = [n |-> ds[i].n, conn |-> ds[i].conn, to |-> "dropped", pp |-> FALSE]
        BY <2>5, Zenon DEF Left
      <3>2. /\ F(i) \in SentOut /\ F(i).n = ds[i].n /\ F(i).conn = ds[i].conn
            /\ F(i).to = "dropped"
        <4> HIDE DEF F
        <4> QED BY <2>2, <3>1 DEF SentOut
      <3> HIDE DEF F
      <3> QED BY <2>5, <3>2, Zenon
    <2> QED BY <2>4, <2>5, Zenon
  <1>3. Fallbacks(ds, ps) = [i \in 1..Len(ds) |-> F(i)]
    BY <1>1, Zenon DEF Fallbacks
  <1> HIDE DEF F
  <1>4. Fallbacks(ds, ps) \in [1..Len(ds) -> SentOut]
    BY <1>2, <1>3, Zenon
  <1>5. Fallbacks(ds, ps) \in Seq(SentOut) /\ Len(Fallbacks(ds, ps)) = Len(ds)
    BY <1>1, <1>4
  <1> QED BY <1>2, <1>3, <1>5, Zenon

\* Datagrams go to the engine.
LEMMA AcceptedIs ==
    ASSUME NEW s \in PeerState, NEW ds \in Seq(Dgram), NEW r, r = accept_packet(s, ds)
    PROVE  /\ r \in PeerState /\ r.conn = s.conn /\ r.client = s.client
           /\ r.out = s.out \o Engines(ds)
  <1>1. PICK o : o = s.out \o Engines(ds)
    BY Zenon
  <1>2. o \in Seq(SentOut)
    <2>1. s.out \in Seq(SentOut)
      BY DEF PeerState
    <2> QED BY <1>1, <2>1, EnginesAre
  <1>3. r = PutOut(s, o)
    BY <1>1, Zenon DEF accept_packet, Engines, PutOut
  <1>4. PutOut(s, o) \in PeerState /\ PutOut(s, o).conn = s.conn
        /\ PutOut(s, o).out = o /\ PutOut(s, o).client = s.client
    BY <1>2, OutWritten, Zenon
  <1> QED BY <1>1, <1>3, <1>4, Zenon

\* Datagrams go to the fallback server.
LEMMA FallbackIs ==
    ASSUME NEW s \in Tracked, NEW ds \in Seq(Dgram), sn_case.pp \in BOOLEAN,
           NEW r, r = fallback_send(s, ds)
    PROVE  /\ r \in Tracked /\ r.client = s.client
           /\ Alike(s.conn, r.conn) /\ r.conn.decision = s.conn.decision
           /\ r.conn.pending = s.conn.pending
           /\ r.conn.proxy_sent = (s.conn.proxy_sent \/ (sn_case.pp /\ TakenOf(ds) # {}))
           /\ r.out = s.out \o Fallbacks(ds, s.conn.proxy_sent)
  <1>1. s.conn \in Entry /\ s \in PeerState /\ s.out \in Seq(SentOut)
        /\ s.conn.proxy_sent \in BOOLEAN /\ s.conn.fd \in BOOLEAN
    BY Zenon DEF Tracked, PeerState, Entry
  <1>2. PICK o : o = s.out \o Fallbacks(ds, s.conn.proxy_sent)
    BY Zenon
  <1>3. o \in Seq(SentOut)
    BY <1>1, <1>2, FallbacksAre
  <1>4. PICK f \in BOOLEAN : f = (s.conn.fd \/ ds # <<>>)
    BY <1>1, Zenon
  <1>5. PICK p \in BOOLEAN : p = (s.conn.proxy_sent \/ (sn_case.pp /\ TakenOf(ds) # {}))
    BY <1>1
  <1>6. PICK c : c = [s.conn EXCEPT !.fd = f, !.proxy_sent = p]
    OBVIOUS
  <1>7. /\ Alike(s.conn, c) /\ c.decision = s.conn.decision /\ c.pending = s.conn.pending
        /\ c.proxy_sent = p /\ c \in Entry
    BY <1>1, <1>6, Zenon DEF Entry, Alike
  <1>8. PICK t : t = PutOut(s, o)
    OBVIOUS
  <1>9. t \in PeerState /\ t.conn = s.conn /\ t.out = o /\ t.client = s.client
    BY <1>1, <1>3, <1>8, OutWritten, Zenon
  <1>10. r = PutConn(t, c)
    <2>1. r = [s EXCEPT !.out = o, !.conn.fd = f, !.conn.proxy_sent = p]
      BY <1>2, <1>4, <1>5, Zenon DEF fallback_send, Fallbacks, TakenOf
    <2> QED BY <1>1, <1>6, <1>8, <2>1, Zenon DEF PeerState, Entry, PutConn, PutOut
  <1>11. r \in Tracked /\ r.conn = c /\ r.out = t.out /\ r.client = t.client
    BY <1>7, <1>9, <1>10, ConnWritten, Zenon
  <1> QED BY <1>2, <1>5, <1>7, <1>9, <1>11, Zenon

\* Held datagrams go where the decision says.
LEMMA PendingIs ==
    ASSUME NEW s \in Tracked, sn_case.pp \in BOOLEAN, s.conn.decision \in {"ACCEPT", "FALLBACK"},
           NEW r, r = deliver_pending(s)
    PROVE  /\ r \in Tracked /\ r.client = s.client
           /\ Alike(s.conn, r.conn) /\ r.conn.decision = s.conn.decision
           /\ r.conn.pending = <<>>
           /\ s.conn.decision = "ACCEPT" => r.out = s.out \o Engines(s.conn.pending)
           /\ s.conn.decision = "FALLBACK" =>
                /\ r.out = s.out \o Fallbacks(s.conn.pending, s.conn.proxy_sent)
                /\ r.conn.proxy_sent = (s.conn.proxy_sent
                                          \/ (sn_case.pp /\ TakenOf(s.conn.pending) # {}))
  <1> DEFINE ds == s.conn.pending
  <1>1. s.conn \in Entry /\ s \in PeerState /\ ds \in Seq(Dgram)
    BY Zenon DEF Tracked, Entry
  <1>2. PICK t : t = IF s.conn.decision = "ACCEPT" THEN accept_packet(s, ds) ELSE fallback_send(s, ds)
    OBVIOUS
  <1>3. /\ t \in Tracked /\ t.client = s.client
        /\ Alike(s.conn, t.conn) /\ t.conn.decision = s.conn.decision
        /\ s.conn.decision = "ACCEPT" => t.out = s.out \o Engines(ds)
        /\ s.conn.decision = "FALLBACK" =>
             /\ t.out = s.out \o Fallbacks(ds, s.conn.proxy_sent)
             /\ t.conn.proxy_sent = (s.conn.proxy_sent \/ (sn_case.pp /\ TakenOf(ds) # {}))
    <2>1. CASE s.conn.decision = "ACCEPT"
      <3>1. t = accept_packet(s, ds)
        BY <1>2, <2>1, Zenon
      <3>2. /\ t \in PeerState /\ t.conn = s.conn /\ t.client = s.client
            /\ t.out = s.out \o Engines(ds)
        BY <1>1, <3>1, AcceptedIs, Zenon
      <3>3. Alike(s.conn, t.conn) /\ t \in Tracked /\ t.conn.decision = s.conn.decision
        BY <1>1, <3>2, Zenon DEF Alike, Tracked
      <3>4. s.conn.decision # "FALLBACK"
        BY <2>1
      <3> QED BY <3>2, <3>3, <3>4, Zenon
    <2>2. CASE s.conn.decision = "FALLBACK"
      <3>1. s.conn.decision # "ACCEPT"
        BY <2>2
      <3>2. t = fallback_send(s, ds)
        BY <1>2, <3>1, Zenon
      <3> QED BY <1>1, <3>1, <3>2, FallbackIs, Zenon
    <2> QED BY <2>1, <2>2, Zenon
  <1>4. PICK c : c = [t.conn EXCEPT !.pending = <<>>, !.crypto = {}]
    OBVIOUS
  <1>5. t.conn \in Entry /\ t \in PeerState
    BY <1>3, Zenon DEF Tracked
  <1>6. /\ Alike(t.conn, c) /\ c.decision = t.conn.decision /\ c.pending = <<>>
        /\ c.proxy_sent = t.conn.proxy_sent /\ c \in Entry
    <2>0. <<>> \in Seq(Dgram)
      OBVIOUS
    <2>1. PICK e \in Seq(Dgram), x \in SUBSET SnFragments : e = <<>> /\ x = {}
      BY <2>0, Zenon
    <2>2. c = [t.conn EXCEPT !.pending = e, !.crypto = x]
      BY <1>4, <2>1, Zenon
    <2> QED BY <1>5, <2>1, <2>2, Zenon DEF Entry, Alike
  <1>7. r = PutConn(t, c)
    <2>1. r = [t EXCEPT !.conn.pending = <<>>, !.conn.crypto = {}]
      BY <1>2, Zenon DEF deliver_pending
    <2> QED BY <1>4, <1>5, <2>1, Zenon DEF PeerState, Entry, PutConn
  <1>8. r \in Tracked /\ r.conn = c /\ r.out = t.out /\ r.client = t.client
    <2>1. c \in Entry
      BY <1>6, Zenon
    <2>2. /\ PutConn(t, c) \in Tracked /\ PutConn(t, c).conn = c
          /\ PutConn(t, c).out = t.out /\ PutConn(t, c).client = t.client
      BY <1>5, <2>1, ConnWritten, Zenon
    <2> QED BY <1>7, <2>2, Zenon
  <1>9. Alike(s.conn, c)
    BY <1>3, <1>6, Zenon DEF Alike
  <1> QED BY <1>3, <1>6, <1>8, <1>9, Zenon

-----------------------------------------------------------------------------
(* Sequences of datagrams.                                                 *)

\* What a concatenation has at each place.
LEMMA ConcatAt ==
    ASSUME NEW S, NEW a \in Seq(S), NEW b \in Seq(S)
    PROVE  /\ Len(a) \in Nat /\ Len(b) \in Nat /\ Len(a \o b) = Len(a) + Len(b)
           /\ \A i \in 1..Len(a) : (a \o b)[i] = a[i]
           /\ \A i \in 1..Len(b) : (a \o b)[Len(a) + i] = b[i]
  OBVIOUS

\* The members of a concatenation.
LEMMA MembersConcat ==
    ASSUME NEW S, NEW a \in Seq(S), NEW b \in Seq(S)
    PROVE  Members(a \o b) = Members(a) \union Members(b)
  <1>1. /\ Len(a) \in Nat /\ Len(b) \in Nat /\ Len(a \o b) = Len(a) + Len(b)
        /\ \A i \in 1..Len(a) : (a \o b)[i] = a[i]
        /\ \A i \in 1..Len(b) : (a \o b)[Len(a) + i] = b[i]
    BY ConcatAt
  <1>2. ASSUME NEW x \in Members(a \o b)
        PROVE  x \in Members(a) \union Members(b)
    <2>1. PICK i \in 1..Len(a \o b) : x = (a \o b)[i]
      BY Zenon DEF Members
    <2>2. i \in 1..Len(a) \/ (i - Len(a) \in 1..Len(b) /\ i = Len(a) + (i - Len(a)))
      BY <1>1
    <2>3. (i \in 1..Len(a) /\ x = a[i]) \/ (i - Len(a) \in 1..Len(b) /\ x = b[i - Len(a)])
      BY <1>1, <2>1, <2>2, Zenon
    <2> QED BY <2>3, Zenon DEF Members
  <1>3. ASSUME NEW x \in Members(a)
        PROVE  x \in Members(a \o b)
    <2>1. PICK i \in 1..Len(a) : x = a[i]
      BY Zenon DEF Members
    <2>2. i \in 1..Len(a \o b)
      BY <1>1
    <2> QED BY <1>1, <2>1, <2>2, Zenon DEF Members
  <1>4. ASSUME NEW x \in Members(b)
        PROVE  x \in Members(a \o b)
    <2>1. PICK i \in 1..Len(b) : x = b[i]
      BY Zenon DEF Members
    <2>2. Len(a) + i \in 1..Len(a \o b)
      BY <1>1
    <2> QED BY <1>1, <2>1, <2>2, Zenon DEF Members
  <1> QED BY <1>2, <1>3, <1>4, Zenon

\* The members of a sequence with one datagram more, and of the one with one.
LEMMA MembersAppend ==
    ASSUME NEW q \in Seq(Dgram), NEW d \in Dgram
    PROVE  /\ Members(Append(q, d)) = Members(q) \union {d}
           /\ Members(<<d>>) = {d} /\ Members(<<>>) = {}
           /\ Append(<<>>, d) = <<d>> /\ <<d>> \in Seq(Dgram) /\ <<>> \in Seq(Dgram)
  <1>1. <<d>> \in Seq(Dgram) /\ Append(q, d) = q \o <<d>> /\ Append(<<>>, d) = <<d>>
        /\ <<>> \in Seq(Dgram)
    OBVIOUS
  <1>2. Members(q \o <<d>>) = Members(q) \union Members(<<d>>)
    <2>1. PICK e \in Seq(Dgram) : e = <<d>>
      BY <1>1, Zenon
    <2>2. Members(q \o e) = Members(q) \union Members(e)
      BY MembersConcat, Zenon
    <2> QED BY <2>1, <2>2
  <1>3. Members(<<d>>) = {d} /\ Members(<<>>) = {}
    BY DEF Members
  <1> QED BY <1>1, <1>2, <1>3, Zenon

\* A datagram leaves as it was held.
LEMMA MembersLeave ==
    ASSUME NEW ds \in Seq(Dgram), NEW k \in Nat, \A d \in Members(ds) : d.conn = k
    PROVE  /\ \A i \in 1..Len(ds) : ds[i].conn = k
           /\ \A o \in Members(Engines(ds)) : o.conn = k /\ o.to = "engine"
           /\ \A ps \in BOOLEAN : sn_case.pp \in BOOLEAN =>
                \A o \in Members(Fallbacks(ds, ps)) : o.conn = k /\ o.to # "engine"
  <1>1. \A i \in 1..Len(ds) : ds[i].conn = k
    BY Zenon DEF Members
  <1>2. ASSUME NEW o \in Members(Engines(ds))
        PROVE  o.conn = k /\ o.to = "engine"
    <2>1. PICK i \in 1..Len(Engines(ds)) : o = Engines(ds)[i]
      BY Zenon DEF Members
    <2> QED BY <1>1, <2>1, EnginesAre, Zenon
  <1>3. ASSUME NEW ps \in BOOLEAN, sn_case.pp \in BOOLEAN, NEW o \in Members(Fallbacks(ds, ps))
        PROVE  o.conn = k /\ o.to # "engine"
    <2>1. PICK i \in 1..Len(Fallbacks(ds, ps)) : o = Fallbacks(ds, ps)[i]
      BY Zenon DEF Members
    <2>2. o.conn = k /\ o.to = IF i \in TakenOf(ds) THEN "fallback" ELSE "dropped"
      <3>1. sn_case.pp \in BOOLEAN
        BY <1>3
      <3>2. /\ Len(Fallbacks(ds, ps)) = Len(ds)
            /\ \A j \in 1..Len(ds) :
                 /\ Fallbacks(ds, ps)[j].conn = ds[j].conn
                 /\ Fallbacks(ds, ps)[j].to = IF j \in TakenOf(ds) THEN "fallback" ELSE "dropped"
        BY <3>1, FallbacksAre, Zenon
      <3> QED BY <1>1, <2>1, <3>2, Zenon
    <2> QED BY <2>2
  <1> QED BY <1>1, <1>2, <1>3, Zenon

\* The next datagram is held.
LEMMA NumberedAppend ==
    ASSUME NEW out \in Seq(SentOut), NEW held \in Seq(Dgram), NEW sent \in Nat,
           NEW d \in Dgram, Numbered(out, held, sent), d.n = sent + 1
    PROVE  Numbered(out, Append(held, d), sent + 1)
  <1>1. /\ Len(out) \in Nat /\ Len(held) \in Nat /\ Len(Append(held, d)) = Len(held) + 1
        /\ \A i \in 1..Len(held) : Append(held, d)[i] = held[i]
        /\ Append(held, d)[Len(held) + 1] = d
    OBVIOUS
  <1>2. ASSUME NEW i \in 1..(Len(held) + 1)
        PROVE  Append(held, d)[i].n = Len(out) + i
    <2>1. CASE i \in 1..Len(held)
      BY <1>1, <2>1, Zenon DEF Numbered
    <2>2. CASE i = Len(held) + 1
      <3>1. Append(held, d)[i].n = sent + 1
        BY <1>1, <2>2, Zenon
      <3> QED BY <1>1, <2>2, <3>1 DEF Numbered
    <2> QED BY <1>1, <2>1, <2>2
  <1>3. Len(out) + (Len(held) + 1) = sent + 1
    <2>1. Len(out) + Len(held) = sent
      BY Zenon DEF Numbered
    <2> QED BY <1>1, <2>1
  <1> QED BY <1>1, <1>2, <1>3, Zenon DEF Numbered

\* x is what becomes of the datagrams ds when they leave.
LeaveAs(ds, x) ==
    x \in Seq(SentOut) /\ Len(x) = Len(ds) /\ \A i \in 1..Len(ds) : x[i].n = ds[i].n

\* What is held leaves.
LEMMA NumberedLeave ==
    ASSUME NEW out \in Seq(SentOut), NEW held \in Seq(Dgram), NEW sent \in Nat,
           NEW x \in Seq(SentOut), LeaveAs(held, x), Numbered(out, held, sent)
    PROVE  Numbered(out \o x, <<>>, sent)
  <1>1. /\ Len(out) \in Nat /\ Len(x) \in Nat /\ Len(out \o x) = Len(out) + Len(x)
        /\ \A i \in 1..Len(out) : (out \o x)[i] = out[i]
        /\ \A i \in 1..Len(x) : (out \o x)[Len(out) + i] = x[i]
    BY ConcatAt
  <1>0. Len(<<>>) = 0
    OBVIOUS
  <1>2. ASSUME NEW i \in 1..(Len(out) + Len(x))
        PROVE  (out \o x)[i].n = i
    <2>1. CASE i \in 1..Len(out)
      BY <1>1, <2>1, Zenon DEF Numbered
    <2>2. CASE i \notin 1..Len(out)
      <3>1. PICK j \in 1..Len(x) : i = Len(out) + j
        <4>1. i - Len(out) \in 1..Len(x) /\ i = Len(out) + (i - Len(out))
          BY <1>1, <2>2
        <4> QED BY <4>1, Zenon
      <3>2. (out \o x)[i] = x[j] /\ x[j].n = held[j].n /\ held[j].n = Len(out) + j
        BY <1>1, <3>1, Zenon DEF Numbered, LeaveAs
      <3> QED BY <3>1, <3>2, Zenon
    <2> QED BY <2>1, <2>2
  <1>3. Len(out) + Len(x) + 0 = sent
    <2>1. Len(out) + Len(x) = sent
      BY Zenon DEF Numbered, LeaveAs
    <2> QED BY <1>1, <2>1
  <1>4. 1..Len(<<>>) = {}
    BY <1>0
  <1> QED BY <1>0, <1>1, <1>2, <1>3, <1>4, Zenon DEF Numbered

\* Datagrams of connection k leave for the fallback server, and the header
\* stays with the first that the socket took.
LEMMA HeadedSend ==
    ASSUME NEW out \in Seq(SentOut), NEW k \in Nat, NEW ps \in BOOLEAN, sn_case.pp \in BOOLEAN,
           NEW ds \in Seq(Dgram), \A i \in 1..Len(ds) : ds[i].conn = k,
           Headed(out, k, ps), NEW q, q = (ps \/ (sn_case.pp /\ TakenOf(ds) # {}))
    PROVE  Headed(out \o Fallbacks(ds, ps), k, q)
  <1>0. PICK x \in Seq(SentOut) : x = Fallbacks(ds, ps)
    BY FallbacksAre, Zenon
  <1>1. /\ Len(out) \in Nat /\ Len(x) \in Nat /\ Len(out \o x) = Len(out) + Len(x)
        /\ \A i \in 1..Len(out) : (out \o x)[i] = out[i]
        /\ \A i \in 1..Len(x) : (out \o x)[Len(out) + i] = x[i]
    BY ConcatAt
  <1>2. Len(x) = Len(ds) /\ TakenOf(ds) \subseteq 1..Len(x)
    <2>1. DOMAIN ds = 1..Len(ds)
      OBVIOUS
    <2>2. Len(x) = Len(ds)
      BY <1>0, FallbacksAre, Zenon
    <2> QED BY <2>1, <2>2, Zenon DEF TakenOf
  <1>3. \A i \in 1..Len(out) : ToFallback(out \o x, k, i) = ToFallback(out, k, i)
    BY <1>1, Zenon DEF ToFallback
  <1>4. ASSUME NEW i \in 1..Len(x)
        PROVE  ToFallback(out \o x, k, Len(out) + i) = (i \in TakenOf(ds))
    <2>0. i \in 1..Len(ds)
      BY <1>2, Zenon
    <2>1. /\ x[i].conn = k
          /\ x[i].to = IF i \in TakenOf(ds) THEN "fallback" ELSE "dropped"
      <3>1. /\ Fallbacks(ds, ps)[i].conn = ds[i].conn
            /\ Fallbacks(ds, ps)[i].to = IF i \in TakenOf(ds) THEN "fallback" ELSE "dropped"
        BY <2>0, FallbacksAre, Zenon
      <3> QED BY <1>0, <2>0, <3>1, Zenon
    <2>2. (x[i].to = "fallback") = (i \in TakenOf(ds))
      BY <2>1
    <2> QED BY <1>1, <2>1, <2>2, Zenon DEF ToFallback
  <1>5. q = (sn_case.pp /\ \E i \in 1..Len(out \o x) : ToFallback(out \o x, k, i))
    <2>1. \A i \in 1..Len(out) : i \in 1..Len(out \o x)
      BY <1>1
    <2>2. \A i \in 1..Len(x) : Len(out) + i \in 1..Len(out \o x)
      BY <1>1
    <2>3. \A i \in 1..Len(out \o x) : i \in 1..Len(out) \/ \E j \in 1..Len(x) : i = Len(out) + j
      <3>1. \A i \in 1..Len(out \o x) :
              i \in 1..Len(out) \/ (i - Len(out) \in 1..Len(x) /\ i = Len(out) + (i - Len(out)))
        BY <1>1
      <3> QED BY <3>1, Zenon
    <2>4. (\E i \in 1..Len(out \o x) : ToFallback(out \o x, k, i))
            <=> (\E i \in 1..Len(out) : ToFallback(out, k, i)) \/ TakenOf(ds) # {}
      <3>1. ASSUME NEW i \in 1..Len(out \o x), ToFallback(out \o x, k, i)
            PROVE  (\E j \in 1..Len(out) : ToFallback(out, k, j)) \/ TakenOf(ds) # {}
        BY <1>3, <1>4, <2>3, <3>1, Zenon
      <3>2. ASSUME NEW i \in 1..Len(out), ToFallback(out, k, i)
            PROVE  \E j \in 1..Len(out \o x) : ToFallback(out \o x, k, j)
        BY <1>3, <2>1, <3>2, Zenon
      <3>3. ASSUME NEW i \in TakenOf(ds)
            PROVE  \E j \in 1..Len(out \o x) : ToFallback(out \o x, k, j)
        BY <1>2, <1>4, <2>2, <3>3, Zenon
      <3> QED BY <3>1, <3>2, <3>3, Zenon
    <2>5. ps = (sn_case.pp /\ \E i \in 1..Len(out) : ToFallback(out, k, i))
      BY Zenon DEF Headed
    <2> QED BY <2>4, <2>5, Zenon
  <1>6. ASSUME NEW i \in 1..Len(out \o x), ToFallback(out \o x, k, i)
        PROVE  (out \o x)[i].pp
                 = (sn_case.pp /\ \A j \in 1..(i - 1) : ~ToFallback(out \o x, k, j))
    <2>1. CASE i \in 1..Len(out)
      <3>1. \A j \in 1..(i - 1) : j \in 1..Len(out)
        BY <1>1, <2>1
      <3>2. out[i].pp = (sn_case.pp /\ \A j \in 1..(i - 1) : ~ToFallback(out, k, j))
        BY <1>3, <1>6, <2>1, Zenon DEF Headed
      <3> QED BY <1>1, <1>3, <2>1, <3>1, <3>2, Zenon
    <2>2. CASE i \notin 1..Len(out)
      <3>1. PICK m \in 1..Len(x) : i = Len(out) + m
        <4>1. i - Len(out) \in 1..Len(x) /\ i = Len(out) + (i - Len(out))
          BY <1>1, <2>2
        <4> QED BY <4>1, Zenon
      <3>2. m \in TakenOf(ds)
        BY <1>4, <1>6, <3>1, Zenon
      <3>3. (out \o x)[i].pp = (sn_case.pp /\ ~ps /\ \A j \in TakenOf(ds) : m <= j)
        <4>1. x[m].pp = (sn_case.pp /\ ~ps /\ \A j \in TakenOf(ds) : m <= j)
          BY <1>0, <1>2, <3>2, FallbacksAre, Zenon
        <4>2. (out \o x)[i] = x[m]
          BY <1>1, <3>1, Zenon
        <4> QED BY <4>1, <4>2, Zenon
      <3>4. sn_case.pp => (~ps <=> \A j \in 1..Len(out) : ~ToFallback(out, k, j))
        BY Zenon DEF Headed
      <3>5. (\A j \in 1..(i - 1) : ~ToFallback(out \o x, k, j))
              <=> (\A j \in 1..Len(out) : ~ToFallback(out, k, j)) /\ \A j \in TakenOf(ds) : m <= j
        <4>1. ASSUME NEW j \in 1..Len(out), \A h \in 1..(i - 1) : ~ToFallback(out \o x, k, h)
              PROVE  ~ToFallback(out, k, j)
          <5>1. j \in 1..(i - 1)
            BY <1>1, <3>1
          <5> QED BY <1>3, <4>1, <5>1, Zenon
        <4>2. ASSUME NEW j \in TakenOf(ds), \A h \in 1..(i - 1) : ~ToFallback(out \o x, k, h)
              PROVE  m <= j
          <5>1. j \in 1..Len(x)
            BY <1>2, Zenon
          <5>2. Len(out) + j \notin 1..(i - 1)
            BY <1>4, <4>2, <5>1, Zenon
          <5> QED BY <1>1, <3>1, <5>1, <5>2
        <4>3. ASSUME NEW j \in 1..(i - 1), \A h \in 1..Len(out) : ~ToFallback(out, k, h),
                     \A h \in TakenOf(ds) : m <= h
              PROVE  ~ToFallback(out \o x, k, j)
          <5>1. CASE j \in 1..Len(out)
            BY <1>3, <4>3, <5>1, Zenon
          <5>2. CASE j \notin 1..Len(out)
            <6>1. PICK h \in 1..Len(x) : j = Len(out) + h /\ ~(m <= h)
              <7>1. j - Len(out) \in 1..Len(x) /\ j = Len(out) + (j - Len(out)) /\ ~(m <= j - Len(out))
                BY <1>1, <3>1, <5>2
              <7> QED BY <7>1, Zenon
            <6> QED BY <1>4, <4>3, <6>1, Zenon
          <5> QED BY <5>1, <5>2
        <4> QED BY <4>1, <4>2, <4>3, Zenon
      <3> QED BY <3>3, <3>4, <3>5, Zenon
    <2> QED BY <2>1, <2>2
  <1> QED BY <1>0, <1>5, <1>6, Zenon DEF Headed

\* A connection of which nothing has left has no header to send yet.
LEMMA HeadedNone ==
    ASSUME NEW out \in Seq(SentOut), NEW k \in Nat, NoneLeft(out, k)
    PROVE  Headed(out, k, FALSE)
  <1>1. \A i \in 1..Len(out) : ~ToFallback(out, k, i)
    BY Zenon DEF NoneLeft, Members, ToFallback
  <1> QED BY <1>1, Zenon DEF Headed

-----------------------------------------------------------------------------
(* What leaves the router, and what it leaves behind.                      *)

\* Datagrams leave under their numbers.
LEMMA LeaveNumbered ==
    ASSUME NEW ds \in Seq(Dgram)
    PROVE  /\ LeaveAs(ds, Engines(ds))
           /\ \A ps \in BOOLEAN : sn_case.pp \in BOOLEAN => LeaveAs(ds, Fallbacks(ds, ps))
  <1>1. LeaveAs(ds, Engines(ds))
    BY EnginesAre, Zenon DEF LeaveAs
  <1>2. ASSUME NEW ps \in BOOLEAN, sn_case.pp \in BOOLEAN
        PROVE  LeaveAs(ds, Fallbacks(ds, ps))
    BY <1>2, FallbacksAre, Zenon DEF LeaveAs
  <1> QED BY <1>1, <1>2, Zenon

\* A peer has an entry or none.
LEMMA LiveOrNot ==
    ASSUME NEW s \in PeerState
    PROVE  /\ s \in Tracked => s.conn.live
           /\ s.conn.live => s \in Tracked
           /\ ~s.conn.live => s.conn = NoEntry
  <1>1. \A c \in Entry : c.live
    BY Zenon DEF Entry
  <1>2. ~NoEntry.live
    BY DEF NoEntry
  <1>3. s.conn \in Entry \/ s.conn = NoEntry
    BY DEF PeerState
  <1> QED BY <1>1, <1>2, <1>3, Zenon DEF Tracked

\* The types of what an entry and a client hold.
LEMMA TrackedTypes ==
    ASSUME NEW s \in Tracked
    PROVE  /\ s \in PeerState /\ s.conn \in Entry /\ s.conn.live
           /\ s.conn.decision \in Decisions /\ s.conn.pending \in Seq(Dgram)
           /\ s.conn.fd \in BOOLEAN /\ s.conn.proxy_sent \in BOOLEAN
           /\ s.conn.initial_dcid[1] \in Nat /\ s.conn.server_scid[1] \in Nat
           /\ HeldBy(s.conn) = s.conn.pending
  <1>1. s \in PeerState /\ s.conn \in Entry
    BY Zenon DEF Tracked
  <1>2. /\ s.conn.live /\ s.conn.decision \in Decisions /\ s.conn.pending \in Seq(Dgram)
        /\ s.conn.fd \in BOOLEAN /\ s.conn.proxy_sent \in BOOLEAN
        /\ s.conn.initial_dcid \in Nat \X Ids /\ s.conn.server_scid \in Nat \X Ids
    BY <1>1, Zenon DEF Entry
  <1>3. s.conn.initial_dcid[1] \in Nat /\ s.conn.server_scid[1] \in Nat
    BY <1>2
  <1> QED BY <1>1, <1>2, <1>3, Zenon DEF HeldBy

\* So for the other parts.
LEMMA PeerTypes ==
    ASSUME NEW s \in PeerState
    PROVE  /\ s.out \in Seq(SentOut) /\ s.client \in QuicClient
           /\ s.client.conns \in Nat /\ s.client.sent \in Nat
           /\ s.client.dcid \in Ids /\ s.client.key \in Ids
           /\ \A o \in Members(s.out) : o \in SentOut /\ o.conn \in Nat
  <1>1. s.out \in Seq(SentOut) /\ s.client \in QuicClient
    BY DEF PeerState
  <1>2. /\ s.client.conns \in Nat /\ s.client.sent \in Nat
        /\ s.client.dcid \in Ids /\ s.client.key \in Ids
    BY <1>1 DEF QuicClient
  <1>3. \A i \in 1..Len(s.out) : s.out[i] \in SentOut
    BY <1>1
  <1>4. \A o \in SentOut : o.conn \in Nat
    BY DEF SentOut
  <1> QED BY <1>1, <1>2, <1>3, <1>4, Zenon DEF Members

\* An entry is taken off the table.
LEMMA RemovedIs ==
    ASSUME NEW s \in PeerState, NEW r, r = connection_remove(s)
    PROVE  /\ r \in PeerState /\ r.conn = NoEntry /\ r.out = s.out /\ r.client = s.client
           /\ ~r.conn.live /\ HeldBy(r.conn) = <<>>
  <1>1. r \in PeerState /\ r.conn = NoEntry /\ r.out = s.out /\ r.client = s.client
    BY DEF PeerState, connection_remove
  <1>2. ~NoEntry.live
    BY DEF NoEntry
  <1> QED BY <1>1, <1>2, Zenon DEF HeldBy

\* Every member of `after` is of `before`, or is of connection k and goes to `to`.
Joined(before, after, k) ==
    \A o \in Members(after) : o \in Members(before) \/ (o.conn = k /\ o.to = "engine")
JoinedNot(before, after, k) ==
    \A o \in Members(after) : o \in Members(before) \/ (o.conn = k /\ o.to # "engine")

\* Datagrams of one connection join what left.
LEMMA EnginesJoin ==
    ASSUME NEW out \in Seq(SentOut), NEW ds \in Seq(Dgram), NEW k \in Nat,
           \A d \in Members(ds) : d.conn = k
    PROVE  Joined(out, out \o Engines(ds), k)
  <1>1. Engines(ds) \in Seq(SentOut)
    BY EnginesAre, Zenon
  <1>2. Members(out \o Engines(ds)) = Members(out) \union Members(Engines(ds))
    <2>1. PICK e \in Seq(SentOut) : e = Engines(ds)
      BY <1>1, Zenon
    <2>2. Members(out \o e) = Members(out) \union Members(e)
      BY MembersConcat
    <2> QED BY <2>1, <2>2, Zenon
  <1>3. \A o \in Members(Engines(ds)) : o.conn = k /\ o.to = "engine"
    BY MembersLeave, Zenon
  <1> QED BY <1>2, <1>3, Zenon DEF Joined

\* So for the fallback server.
LEMMA FallbacksJoin ==
    ASSUME NEW out \in Seq(SentOut), NEW ds \in Seq(Dgram), NEW k \in Nat, NEW ps \in BOOLEAN,
           sn_case.pp \in BOOLEAN, \A d \in Members(ds) : d.conn = k
    PROVE  JoinedNot(out, out \o Fallbacks(ds, ps), k)
  <1>1. Fallbacks(ds, ps) \in Seq(SentOut)
    BY FallbacksAre, Zenon
  <1>2. Members(out \o Fallbacks(ds, ps)) = Members(out) \union Members(Fallbacks(ds, ps))
    <2>1. PICK e \in Seq(SentOut) : e = Fallbacks(ds, ps)
      BY <1>1, Zenon
    <2>2. Members(out \o e) = Members(out) \union Members(e)
      BY MembersConcat
    <2> QED BY <2>1, <2>2, Zenon
  <1>3. \A o \in Members(Fallbacks(ds, ps)) : o.conn = k /\ o.to # "engine"
    BY MembersLeave
  <1> QED BY <1>2, <1>3, Zenon DEF JoinedNot

\* What an entry holds leaves at the decision.
LEMMA DeliverHeld ==
    ASSUME NEW s \in Tracked, sn_case.pp \in BOOLEAN, NEW n \in Nat,
           Numbered(s.out, s.conn.pending, n), EntryGood(s.conn),
           NEW x \in {"ACCEPT", "FALLBACK"},
           NEW r, r = deliver_pending(Decided(s, x))
    PROVE  /\ r \in Tracked /\ r.client = s.client
           /\ Alike(s.conn, r.conn) /\ r.conn.decision = x /\ r.conn.pending = <<>>
           /\ Numbered(r.out, <<>>, n) /\ EntryGood(r.conn)
           /\ x = "ACCEPT" => Joined(s.out, r.out, s.conn.initial_dcid[1])
           /\ x = "FALLBACK" =>
                /\ JoinedNot(s.out, r.out, s.conn.initial_dcid[1])
                /\ Headed(s.out, s.conn.initial_dcid[1], s.conn.proxy_sent)
                     => Headed(r.out, s.conn.initial_dcid[1], r.conn.proxy_sent)
  <1> DEFINE ds == s.conn.pending
             k == s.conn.initial_dcid[1]
  <1>1. PICK t : t = Decided(s, x)
    OBVIOUS
  <1>2. x \in Decisions
    BY DEF Decisions
  <1>3. /\ t \in Tracked /\ t.out = s.out /\ t.client = s.client
        /\ Alike(s.conn, t.conn) /\ t.conn.decision = x /\ t.conn.pending = ds
        /\ t.conn.proxy_sent = s.conn.proxy_sent
    BY <1>1, <1>2, DecidedIs
  <1>4. /\ r \in Tracked /\ r.client = t.client
        /\ Alike(t.conn, r.conn) /\ r.conn.decision = t.conn.decision /\ r.conn.pending = <<>>
        /\ t.conn.decision = "ACCEPT" => r.out = t.out \o Engines(t.conn.pending)
        /\ t.conn.decision = "FALLBACK" =>
             /\ r.out = t.out \o Fallbacks(t.conn.pending, t.conn.proxy_sent)
             /\ r.conn.proxy_sent = (t.conn.proxy_sent \/ (sn_case.pp /\ TakenOf(t.conn.pending) # {}))
    <2>1. t.conn.decision \in {"ACCEPT", "FALLBACK"} /\ r = deliver_pending(t)
      BY <1>1, <1>3, Zenon
    <2> QED BY <1>3, <2>1, PendingIs, Zenon
  <1>5. /\ ds \in Seq(Dgram) /\ k \in Nat /\ s.conn.proxy_sent \in BOOLEAN
        /\ s.out \in Seq(SentOut) /\ \A d \in Members(ds) : d.conn = k
    BY TrackedTypes, PeerTypes, Zenon DEF EntryGood
  <1>6. Alike(s.conn, r.conn)
    BY <1>3, <1>4, Zenon DEF Alike
  <1>7. EntryGood(r.conn)
    <2>1. r.conn.server_scid = s.conn.server_scid /\ r.conn.initial_dcid = s.conn.initial_dcid
      BY <1>6, Zenon DEF Alike
    <2>2. Members(<<>>) = {}
      BY DEF Members
    <2>3. r.conn.decision # "PENDING"
      BY <1>3, <1>4
    <2> QED BY <1>4, <2>1, <2>2, <2>3, Zenon DEF EntryGood
  <1>8. CASE x = "ACCEPT"
    <2>1. r.out = s.out \o Engines(ds)
      BY <1>3, <1>4, <1>8, Zenon
    <2>2. Engines(ds) \in Seq(SentOut) /\ LeaveAs(ds, Engines(ds))
      BY <1>5, LeaveNumbered, EnginesAre, Zenon
    <2>3. Numbered(r.out, <<>>, n)
      BY <1>5, <2>1, <2>2, NumberedLeave, Zenon
    <2>4. Joined(s.out, r.out, k)
      BY <1>5, <2>1, EnginesJoin, Zenon
    <2>5. x # "FALLBACK"
      BY <1>8
    <2> QED BY <1>3, <1>4, <1>6, <1>7, <2>3, <2>4, <2>5, Zenon
  <1>9. CASE x = "FALLBACK"
    <2>1. /\ r.out = s.out \o Fallbacks(ds, s.conn.proxy_sent)
          /\ r.conn.proxy_sent = (s.conn.proxy_sent \/ (sn_case.pp /\ TakenOf(ds) # {}))
      BY <1>3, <1>4, <1>9, Zenon
    <2>2. /\ Fallbacks(ds, s.conn.proxy_sent) \in Seq(SentOut)
          /\ LeaveAs(ds, Fallbacks(ds, s.conn.proxy_sent))
      BY <1>5, LeaveNumbered, FallbacksAre, Zenon
    <2>3. Numbered(r.out, <<>>, n)
      BY <1>5, <2>1, <2>2, NumberedLeave, Zenon
    <2>4. JoinedNot(s.out, r.out, k)
      BY <1>5, <2>1, FallbacksJoin, Zenon
    <2>5. \A i \in 1..Len(ds) : ds[i].conn = k
      BY <1>5, MembersLeave, Zenon
    <2>6. Headed(s.out, k, s.conn.proxy_sent) => Headed(r.out, k, r.conn.proxy_sent)
      BY <1>5, <2>1, <2>5, HeadedSend, Zenon
    <2>7. x # "ACCEPT"
      BY <1>9
    <2> QED BY <1>3, <1>4, <1>6, <1>7, <2>3, <2>4, <2>6, <2>7, Zenon
  <1> QED BY <1>8, <1>9, Zenon

\* What has joined is of no connection still to come.
LEMMA JoinedPast ==
    ASSUME NEW s \in PeerState, NEW out \in Seq(SentOut), NEW k \in Nat, k <= s.client.conns,
           \A o \in Members(s.out) : o.conn <= s.client.conns,
           Joined(s.out, out, k) \/ JoinedNot(s.out, out, k)
    PROVE  \A o \in Members(out) : o.conn <= s.client.conns
  BY Zenon DEF Joined, JoinedNot

\* The entry is given up.
LEMMA GivenUp ==
    ASSUME NEW s, Placed(s), s.conn.live, sn_case.pp \in BOOLEAN, NEW r, r = GiveUp(s)
    PROVE  /\ Placed(r) /\ r.conn = NoEntry /\ ~r.conn.live /\ r.client = s.client
           /\ Joined(s.out, r.out, s.conn.initial_dcid[1])
  <1>1. s \in PeerState /\ s \in Tracked
    BY LiveOrNot, Zenon DEF Placed
  <1>2. PICK u : u = IF s.conn.decision = "PENDING" THEN deliver_pending(Decided(s, "ACCEPT")) ELSE s
    OBVIOUS
  <1>3. r = connection_remove(u)
    BY <1>2, Zenon DEF GiveUp, Decided
  <1>4. /\ u \in Tracked /\ u.client = s.client
        /\ Numbered(u.out, <<>>, s.client.sent) /\ Joined(s.out, u.out, s.conn.initial_dcid[1])
    <2>1. Numbered(s.out, s.conn.pending, s.client.sent) /\ EntryGood(s.conn) /\ s.client.sent \in Nat
      BY <1>1, TrackedTypes, PeerTypes, Zenon DEF Placed
    <2>2. CASE s.conn.decision = "PENDING"
      <3>1. u = deliver_pending(Decided(s, "ACCEPT"))
        BY <1>2, <2>2, Zenon
      <3> QED BY <1>1, <2>1, <3>1, DeliverHeld, Zenon
    <2>3. CASE s.conn.decision # "PENDING"
      <3>1. u = s
        BY <1>2, <2>3, Zenon
      <3>2. s.conn.pending = <<>>
        BY <2>1, <2>3, Zenon DEF EntryGood
      <3> QED BY <1>1, <2>1, <3>1, <3>2, Zenon DEF Joined
    <2> QED BY <2>2, <2>3, Zenon
  <1>5. u \in PeerState
    BY <1>4, TrackedTypes, Zenon
  <1>6. /\ r \in PeerState /\ r.conn = NoEntry /\ r.out = u.out /\ r.client = u.client
        /\ ~r.conn.live /\ HeldBy(r.conn) = <<>>
    BY <1>3, <1>5, RemovedIs, Zenon
  <1>7. Joined(s.out, r.out, s.conn.initial_dcid[1])
    BY <1>4, <1>6, Zenon
  <1>8. \A o \in Members(r.out) : o.conn <= s.client.conns
    <2>1. s.conn.initial_dcid[1] \in Nat /\ s.conn.initial_dcid[1] <= s.client.conns
          /\ r.out \in Seq(SentOut) /\ \A o \in Members(s.out) : o.conn <= s.client.conns
      BY <1>1, <1>6, TrackedTypes, PeerTypes, Zenon DEF Placed
    <2> QED BY <1>1, <1>7, <2>1, JoinedPast, Zenon
  <1>9. Placed(r)
    BY <1>4, <1>6, <1>8, Zenon DEF Placed
  <1> QED BY <1>4, <1>6, <1>7, <1>9, Zenon

\* Giving a client up concerns no datagram.
LEMMA LostPlaced ==
    ASSUME NEW s, Placed(s), NEW r, r = Lost(s)
    PROVE  Placed(r)
  BY LostIs, Zenon DEF Placed

\* A peer whose entry is evicted, or has timed out, is lost but for a connection
\* it has not begun.
LEMMA EvictedKeeps ==
    ASSUME NEW p, NEW s, PeerInv(p, s), s.conn.live, sn_case.pp \in BOOLEAN,
           NEW r, r = Lost(GiveUp(s))
    PROVE  PeerInv(p, r) /\ ~r.conn.live
  <1>1. PICK u : u = GiveUp(s)
    OBVIOUS
  <1>2. Placed(s)
    BY Zenon DEF PeerInv
  <1>3. /\ Placed(u) /\ ~u.conn.live /\ u.client = s.client
        /\ Joined(s.out, u.out, s.conn.initial_dcid[1])
    BY <1>1, <1>2, GivenUp, Zenon
  <1>4. r = Lost(u) /\ u \in PeerState
    BY <1>1, <1>3, Zenon DEF Placed
  <1>5. /\ r.conn = u.conn /\ r.out = u.out /\ r.client.lost = TRUE
        /\ r.client.conns = u.client.conns /\ r.client.dcid = u.client.dcid
        /\ r.client.key = u.client.key /\ r.client.started = u.client.started
    BY <1>4, LostIs, Zenon
  <1>6. Placed(r)
    BY <1>3, <1>4, LostPlaced, Zenon
  <1>7. CASE s.client.started
    BY <1>3, <1>5, <1>6, <1>7, Zenon DEF PeerInv, Excused
  <1>8. CASE ~s.client.started
    <2>1. Fresh(s)
      BY <1>8, Zenon DEF PeerInv
    <2>2. NoneLeft(u.out, s.client.conns)
      <3>1. s.conn.initial_dcid[1] # s.client.conns
        <4>1. s.conn.initial_dcid[1] < s.client.conns
          BY <2>1, Zenon DEF Fresh
        <4>2. s.conn.initial_dcid[1] \in Nat /\ s.client.conns \in Nat
          BY <1>2, LiveOrNot, TrackedTypes, PeerTypes, Zenon DEF Placed
        <4> QED BY <4>1, <4>2
      <3> QED BY <1>3, <2>1, <3>1, Zenon DEF Fresh, NoneLeft, Joined
    <2>3. Fresh(r)
      BY <1>3, <1>5, <2>1, <2>2, Zenon DEF Fresh
    <2> QED BY <1>3, <1>5, <1>6, <1>8, <2>3, Zenon DEF PeerInv
  <1> QED BY <1>3, <1>5, <1>7, <1>8, Zenon

-----------------------------------------------------------------------------
(* A datagram arrives.                                                     *)

\* d is what the client of s sends next.
Offered(s, d) ==
    /\ d \in Dgram /\ d.n = s.client.sent + 1 /\ d.conn = s.client.conns
    /\ d.dcid = <<s.client.conns, s.client.dcid>>
    /\ d.opens = (s.client.dcid = s.client.key)
    /\ s.client.started \/ d.type = "initial"

\* The router has sent or held it, and the client is still to count it.
Arrived(p, r) ==
    /\ r \in PeerState /\ r.client.conns # 0
    /\ Numbered(r.out, HeldBy(r.conn), r.client.sent + 1)
    /\ \A o \in Members(r.out) : o.conn <= r.client.conns
    /\ r.conn.live => EntryGood(r.conn) /\ r.conn.initial_dcid[1] <= r.client.conns
    /\ Excused(r) \/ Routed(p, r)

\* No entry, and nothing of the connection where it does not belong.
Clear(p, s) ==
    IF sni_router_match(Name(p, s.client.conns)) THEN AllAccepted(s.out, s.client.conns)
    ELSE NoneLeft(s.out, s.client.conns) /\ s.client.dcid = "orig" /\ s.client.key = "orig"

\* The peer, once an entry of another connection is out of the way.
ReadyFor(p, s, d) ==
    /\ Placed(s) /\ Offered(s, d)
    /\ IF s.conn.live
       THEN (Excused(s) \/ Routed(p, s)) /\ ~StartsAnew(s.conn, d)
       ELSE Excused(s) \/ Clear(p, s)

\* An undecided entry of the connection of d.
Holding(p, s, d) ==
    /\ s \in Tracked /\ s.conn.decision = "PENDING"
    /\ Placed(s) /\ Offered(s, d) /\ s.conn.initial_dcid = d.dcid
    /\ \/ Excused(s)
       \/ IF sni_router_match(Name(p, s.client.conns)) THEN AllAccepted(s.out, s.client.conns)
          ELSE Undecided(s) /\ s.conn.server_scid \in {NoId, <<s.client.conns, ServerId>>}

\* The client counts what it sent.
LEMMA CountedKeeps ==
    ASSUME NEW p, NEW s, Arrived(p, s), NEW d \in Dgram, NEW r, r = Counted(s, d)
    PROVE  PeerInv(p, r) /\ r.conn = s.conn
  <1>1. s \in PeerState /\ s.client \in QuicClient
    BY PeerTypes, Zenon DEF Arrived
  <1>2. PICK v : v = IF s.client.server = "retried" /\ parse_initial_header(d) THEN "tokened"
                     ELSE s.client.server
    OBVIOUS
  <1>3. v \in {"quiet", "retried", "tokened", "answered"}
    BY <1>1, <1>2 DEF QuicClient
  <1>4. PICK m \in Nat : m = s.client.sent + 1
    BY <1>1 DEF QuicClient
  <1>5. PICK cl : cl = [s.client EXCEPT !.sent = m, !.started = TRUE, !.server = v]
    OBVIOUS
  <1>6. /\ cl \in QuicClient /\ cl.sent = m /\ cl.started = TRUE
        /\ cl.conns = s.client.conns /\ cl.dcid = s.client.dcid /\ cl.key = s.client.key
        /\ cl.lost = s.client.lost
    BY <1>1, <1>3, <1>5, Zenon DEF QuicClient
  <1>7. r = PutClient(s, cl)
    BY <1>1, <1>2, <1>4, <1>5, Zenon DEF Counted, PutClient, PeerState, QuicClient
  <1>8. r \in PeerState /\ r.conn = s.conn /\ r.out = s.out /\ r.client = cl
    <2>1. /\ PutClient(s, cl) \in PeerState /\ PutClient(s, cl).conn = s.conn
          /\ PutClient(s, cl).out = s.out /\ PutClient(s, cl).client = cl
      BY <1>1, <1>6, ClientWritten, Zenon
    <2> QED BY <1>7, <2>1, Zenon
  <1>9. Placed(r)
    BY <1>4, <1>6, <1>8, Zenon DEF Arrived, Placed
  <1>10. Excused(r) \/ Routed(p, r)
    <2>1. Excused(s) \/ Routed(p, s)
      BY Zenon DEF Arrived
    <2> QED BY <1>6, <1>8, <2>1, Zenon DEF Routed, Served, Unserved, IdsKnown, Undecided, Excused
  <1> QED BY <1>6, <1>8, <1>9, <1>10, Zenon DEF PeerInv

\* An entry stays good when only its times and marks change.
LEMMA EntryAlike ==
    ASSUME NEW c, NEW e, EntryGood(c), Alike(c, e), e.decision = c.decision, e.pending = c.pending,
           e.fd = c.fd \/ e.decision # "PENDING"
    PROVE  EntryGood(e)
  BY Zenon DEF EntryGood, Alike

\* One datagram goes to the engine.
LEMMA AcceptOne ==
    ASSUME NEW s, Placed(s), HeldBy(s.conn) = <<>>, NEW d, Offered(s, d),
           NEW r, r = accept_packet(s, <<d>>)
    PROVE  /\ r \in PeerState /\ r.conn = s.conn /\ r.client = s.client
           /\ Numbered(r.out, <<>>, s.client.sent + 1)
           /\ Joined(s.out, r.out, s.client.conns)
           /\ \A o \in Members(r.out) : o.conn <= s.client.conns
  <1>1. s \in PeerState /\ d \in Dgram /\ d.n = s.client.sent + 1 /\ d.conn = s.client.conns
    BY Zenon DEF Placed, Offered
  <1>2. s.out \in Seq(SentOut) /\ s.client.sent \in Nat /\ s.client.conns \in Nat
    BY <1>1, PeerTypes, Zenon
  <1>3. PICK ds \in Seq(Dgram) : ds = <<d>> /\ ds = Append(<<>>, d) /\ Members(ds) = {d}
    <2>1. <<>> \in Seq(Dgram)
      OBVIOUS
    <2> QED BY <1>1, <2>1, MembersAppend, Zenon
  <1>4. /\ r \in PeerState /\ r.conn = s.conn /\ r.client = s.client
        /\ r.out = s.out \o Engines(ds)
    <2>1. r = accept_packet(s, ds)
      BY <1>3, Zenon
    <2> QED BY <1>1, <2>1, AcceptedIs, Zenon
  <1>5. Numbered(s.out, ds, s.client.sent + 1)
    <2>1. Numbered(s.out, <<>>, s.client.sent)
      BY Zenon DEF Placed
    <2>0. <<>> \in Seq(Dgram)
      OBVIOUS
    <2>2. PICK e \in Seq(Dgram) : e = <<>>
      BY <2>0, Zenon
    <2>3. Numbered(s.out, Append(e, d), s.client.sent + 1)
      BY <1>1, <1>2, <2>1, <2>2, NumberedAppend, Zenon
    <2> QED BY <1>3, <2>2, <2>3, Zenon
  <1>6. Engines(ds) \in Seq(SentOut) /\ LeaveAs(ds, Engines(ds))
    BY <1>3, EnginesAre, LeaveNumbered, Zenon
  <1>7. Numbered(r.out, <<>>, s.client.sent + 1)
    <2>1. PICK m \in Nat : m = s.client.sent + 1
      BY <1>2
    <2> QED BY <1>2, <1>4, <1>5, <1>6, <2>1, NumberedLeave, Zenon
  <1>8. Joined(s.out, r.out, s.client.conns)
    BY <1>1, <1>2, <1>3, <1>4, EnginesJoin, Zenon
  <1>9. s.client.conns <= s.client.conns
    BY <1>2
  <1>10. \A o \in Members(r.out) : o.conn <= s.client.conns
    BY <1>8, <1>9, Zenon DEF Joined, Placed
  <1> QED BY <1>4, <1>7, <1>8, <1>10, Zenon

\* One datagram goes to the fallback server.
LEMMA FallbackOne ==
    ASSUME NEW s \in Tracked, sn_case.pp \in BOOLEAN, Placed(s), s.conn.pending = <<>>,
           NEW d, Offered(s, d), NEW r, r = fallback_send(s, <<d>>)
    PROVE  /\ r \in Tracked /\ r.client = s.client
           /\ Alike(s.conn, r.conn) /\ r.conn.decision = s.conn.decision
           /\ r.conn.pending = <<>>
           /\ Numbered(r.out, <<>>, s.client.sent + 1)
           /\ JoinedNot(s.out, r.out, s.client.conns)
           /\ \A o \in Members(r.out) : o.conn <= s.client.conns
           /\ Headed(s.out, s.client.conns, s.conn.proxy_sent)
                => Headed(r.out, s.client.conns, r.conn.proxy_sent)
  <1>1. s \in PeerState /\ d \in Dgram /\ d.n = s.client.sent + 1 /\ d.conn = s.client.conns
    BY Zenon DEF Placed, Offered
  <1>2. /\ s.out \in Seq(SentOut) /\ s.client.sent \in Nat /\ s.client.conns \in Nat
        /\ s.conn.proxy_sent \in BOOLEAN
    BY <1>1, PeerTypes, TrackedTypes, Zenon
  <1>3. PICK ds \in Seq(Dgram) : ds = <<d>> /\ ds = Append(<<>>, d) /\ Members(ds) = {d}
    <2>1. <<>> \in Seq(Dgram)
      OBVIOUS
    <2> QED BY <1>1, <2>1, MembersAppend, Zenon
  <1>4. /\ r \in Tracked /\ r.client = s.client
        /\ Alike(s.conn, r.conn) /\ r.conn.decision = s.conn.decision
        /\ r.conn.pending = <<>>
        /\ r.conn.proxy_sent = (s.conn.proxy_sent \/ (sn_case.pp /\ TakenOf(ds) # {}))
        /\ r.out = s.out \o Fallbacks(ds, s.conn.proxy_sent)
    <2>1. r = fallback_send(s, ds)
      BY <1>3, Zenon
    <2> QED BY <2>1, FallbackIs, Zenon
  <1>5. Numbered(s.out, ds, s.client.sent + 1)
    <2>1. Numbered(s.out, <<>>, s.client.sent)
      BY TrackedTypes, Zenon DEF Placed
    <2>0. <<>> \in Seq(Dgram)
      OBVIOUS
    <2>2. PICK e \in Seq(Dgram) : e = <<>>
      BY <2>0, Zenon
    <2>3. Numbered(s.out, Append(e, d), s.client.sent + 1)
      BY <1>1, <1>2, <2>1, <2>2, NumberedAppend, Zenon
    <2> QED BY <1>3, <2>2, <2>3, Zenon
  <1>6. /\ Fallbacks(ds, s.conn.proxy_sent) \in Seq(SentOut)
        /\ LeaveAs(ds, Fallbacks(ds, s.conn.proxy_sent))
    BY <1>2, <1>3, FallbacksAre, LeaveNumbered, Zenon
  <1>7. Numbered(r.out, <<>>, s.client.sent + 1)
    <2>1. PICK m \in Nat : m = s.client.sent + 1
      BY <1>2
    <2> QED BY <1>2, <1>4, <1>5, <1>6, <2>1, NumberedLeave, Zenon
  <1>8. JoinedNot(s.out, r.out, s.client.conns)
    BY <1>1, <1>2, <1>3, <1>4, FallbacksJoin, Zenon
  <1>9. s.client.conns <= s.client.conns
    BY <1>2
  <1>10. \A o \in Members(r.out) : o.conn <= s.client.conns
    BY <1>8, <1>9, Zenon DEF JoinedNot, Placed
  <1>11. \A i \in 1..Len(ds) : ds[i].conn = s.client.conns
    <2>1. \A i \in 1..Len(ds) : ds[i] \in Members(ds)
      BY Zenon DEF Members
    <2> QED BY <1>1, <1>3, <2>1, Zenon
  <1>12. Headed(s.out, s.client.conns, s.conn.proxy_sent)
           => Headed(r.out, s.client.conns, r.conn.proxy_sent)
    BY <1>2, <1>4, <1>11, HeadedSend, Zenon
  <1> QED BY <1>4, <1>7, <1>8, <1>10, <1>12, Zenon

\* Nothing is of connection k, or only what joins it.
LEMMA JoinedLeft ==
    ASSUME NEW before, NEW after, NEW j, NEW k
    PROVE  /\ AllAccepted(before, k) /\ Joined(before, after, j) => AllAccepted(after, k)
           /\ NoneAccepted(before, k) /\ JoinedNot(before, after, j) => NoneAccepted(after, k)
           /\ NoneLeft(before, k) /\ Joined(before, after, j) /\ j # k => NoneLeft(after, k)
           /\ NoneLeft(before, k) => AllAccepted(before, k) /\ NoneAccepted(before, k)
  BY Zenon DEF AllAccepted, NoneAccepted, NoneLeft, Joined, JoinedNot

\* A datagram of a connection that the engine has.
LEMMA AcceptArrives ==
    ASSUME NEW p, NEW s, NEW d, ReadyFor(p, s, d), s.conn.live, s.conn.decision = "ACCEPT",
           sn_now \in Nat, NEW r, r = accept_packet(SeenAt(s, sn_now), <<d>>)
    PROVE  Arrived(p, r)
  <1>1. Placed(s) /\ Offered(s, d) /\ s \in Tracked /\ (Excused(s) \/ Routed(p, s))
    BY LiveOrNot, Zenon DEF ReadyFor, Placed
  <1>2. PICK u : u = SeenAt(s, sn_now)
    OBVIOUS
  <1>3. /\ u \in Tracked /\ u.out = s.out /\ u.client = s.client
        /\ Alike(s.conn, u.conn) /\ u.conn.decision = s.conn.decision
        /\ u.conn.pending = s.conn.pending /\ u.conn.fd = s.conn.fd
    BY <1>1, <1>2, SeenIs, Zenon
  <1>4. EntryGood(s.conn) /\ s.conn.pending = <<>> /\ s.conn.initial_dcid[1] <= s.client.conns
    <2>1. s.conn.decision # "PENDING"
      OBVIOUS
    <2> QED BY <1>1, <2>1, Zenon DEF Placed, EntryGood
  <1>5. EntryGood(u.conn) /\ u.conn.initial_dcid = s.conn.initial_dcid
    BY <1>3, <1>4, EntryAlike, Zenon DEF Alike
  <1>6. u.conn.live /\ s.conn.live /\ u \in PeerState /\ HeldBy(u.conn) = <<>> /\ HeldBy(s.conn) = <<>>
    BY <1>1, <1>3, <1>4, TrackedTypes, Zenon
  <1>7. Placed(u) /\ Offered(u, d)
    BY <1>1, <1>3, <1>4, <1>5, <1>6, Zenon DEF Placed, Offered
  <1>8. /\ r \in PeerState /\ r.conn = u.conn /\ r.client = u.client
        /\ Numbered(r.out, <<>>, u.client.sent + 1)
        /\ Joined(u.out, r.out, u.client.conns)
        /\ \A o \in Members(r.out) : o.conn <= u.client.conns
    <2>1. r = accept_packet(u, <<d>>)
      BY <1>2, Zenon
    <2> QED BY <1>6, <1>7, <2>1, AcceptOne, Zenon
  <1>9. Routed(p, s) => Routed(p, r)
    <2>1. r.conn.decision # "FALLBACK"
      BY <1>3, <1>8
    <2>2. Unserved(s) => FALSE
      BY Zenon DEF Unserved
    <2>3. Served(s) => Served(r)
      BY <1>3, <1>8, <2>1, JoinedLeft, Zenon DEF Served
    <2> QED BY <1>3, <1>5, <1>6, <1>8, <2>2, <2>3, Zenon DEF Routed
  <1>10. r.client.conns # 0
    BY <1>1, <1>3, <1>8, Zenon DEF Placed
  <1> QED BY <1>1, <1>3, <1>4, <1>5, <1>6, <1>8, <1>9, <1>10, Zenon DEF Arrived, Excused

\* A datagram of a connection that the fallback server has.
LEMMA FallbackArrives ==
    ASSUME NEW p, NEW s, NEW d, ReadyFor(p, s, d), s.conn.live, s.conn.decision = "FALLBACK",
           sn_case.pp \in BOOLEAN,
           sn_now \in Nat, NEW r, r = fallback_send(SeenAt(s, sn_now), <<d>>)
    PROVE  Arrived(p, r)
  <1>1. Placed(s) /\ Offered(s, d) /\ s \in Tracked /\ (Excused(s) \/ Routed(p, s))
    BY LiveOrNot, Zenon DEF ReadyFor, Placed
  <1>2. PICK u : u = SeenAt(s, sn_now)
    OBVIOUS
  <1>3. /\ u \in Tracked /\ u.out = s.out /\ u.client = s.client
        /\ Alike(s.conn, u.conn) /\ u.conn.decision = s.conn.decision
        /\ u.conn.pending = s.conn.pending /\ u.conn.proxy_sent = s.conn.proxy_sent
        /\ u.conn.fd = s.conn.fd
    <2>1. s \in Tracked
      BY <1>1, Zenon
    <2> QED BY <1>2, <2>1, SeenIs
  <1>4. EntryGood(s.conn) /\ s.conn.pending = <<>> /\ s.conn.initial_dcid[1] <= s.client.conns
    <2>1. s.conn.decision # "PENDING"
      OBVIOUS
    <2> QED BY <1>1, <2>1, Zenon DEF Placed, EntryGood
  <1>5. EntryGood(u.conn) /\ u.conn.initial_dcid = s.conn.initial_dcid
    BY <1>3, <1>4, EntryAlike, Zenon DEF Alike
  <1>6. u.conn.live /\ s.conn.live /\ u \in PeerState /\ HeldBy(u.conn) = <<>> /\ HeldBy(s.conn) = <<>>
    BY <1>1, <1>3, <1>4, TrackedTypes, Zenon
  <1>7. Placed(u) /\ Offered(u, d)
    BY <1>1, <1>3, <1>4, <1>5, <1>6, Zenon DEF Placed, Offered
  <1>8. /\ r \in Tracked /\ r.client = u.client
        /\ Alike(u.conn, r.conn) /\ r.conn.decision = u.conn.decision
        /\ r.conn.pending = <<>>
        /\ Numbered(r.out, <<>>, u.client.sent + 1)
        /\ JoinedNot(u.out, r.out, u.client.conns)
        /\ \A o \in Members(r.out) : o.conn <= u.client.conns
        /\ Headed(u.out, u.client.conns, u.conn.proxy_sent)
             => Headed(r.out, u.client.conns, r.conn.proxy_sent)
    <2>1. r = fallback_send(u, <<d>>) /\ u.conn.pending = <<>>
      BY <1>2, <1>3, <1>4, Zenon
    <2>2. u \in Tracked
      BY <1>3, Zenon
    <2> QED BY <1>7, <2>1, <2>2, FallbackOne, Zenon
  <1>9. /\ EntryGood(r.conn) /\ r.conn.initial_dcid = s.conn.initial_dcid
        /\ r.conn.server_scid = s.conn.server_scid
        /\ r \in PeerState /\ r.conn.live /\ HeldBy(r.conn) = <<>>
    <2>1. u.conn.pending = <<>>
      BY <1>3, <1>4, Zenon
    <2>2. EntryGood(r.conn)
      <3>1. r.conn.decision # "PENDING"
        BY <1>3, <1>8
      <3> QED BY <1>5, <1>8, <2>1, <3>1, EntryAlike, Zenon
    <2> QED BY <1>3, <1>8, <2>2, TrackedTypes, Zenon DEF Alike
  <1>10. Routed(p, s) => Routed(p, r)
    <2>1. r.conn.decision # "ACCEPT" /\ r.conn.decision # "PENDING"
      BY <1>3, <1>8
    <2>2. Served(s) => FALSE
      BY Zenon DEF Served
    <2>3. Unserved(s) => Unserved(r)
      <3>1. IdsKnown(s) => IdsKnown(r)
        BY <1>3, <1>8, <1>9, Zenon DEF IdsKnown
      <3>2. NoneAccepted(s.out, s.client.conns) => NoneAccepted(r.out, r.client.conns)
        BY <1>3, <1>8, JoinedLeft, Zenon
      <3>3. Headed(s.out, s.client.conns, s.conn.proxy_sent)
              => Headed(r.out, r.client.conns, r.conn.proxy_sent)
        BY <1>3, <1>8, Zenon
      <3> QED BY <2>1, <3>1, <3>2, <3>3, Zenon DEF Unserved
    <2> QED BY <1>3, <1>8, <1>9, <2>2, <2>3, Zenon DEF Routed
  <1>11. r.client.conns # 0
    BY <1>1, <1>3, <1>8, Zenon DEF Placed
  <1> QED BY <1>1, <1>3, <1>4, <1>8, <1>9, <1>10, <1>11, Zenon DEF Arrived, Excused

\* A client that is lost: what is held and what arrives go to the engine.
LEMMA AcceptAllArrives ==
    ASSUME NEW p, NEW s \in Tracked, NEW d, Placed(s), Offered(s, d), s.client.lost,
           sn_case.pp \in BOOLEAN,
           NEW r, r = accept_pending_and_current(s, d, FALSE)
    PROVE  Arrived(p, r)
  <1>1. PICK t : t = deliver_pending(Decided(s, "ACCEPT"))
    OBVIOUS
  <1>2. /\ Numbered(s.out, s.conn.pending, s.client.sent) /\ EntryGood(s.conn)
        /\ s.client.sent \in Nat /\ s.conn.initial_dcid[1] \in Nat
        /\ s.conn.initial_dcid[1] <= s.client.conns /\ s \in PeerState
        /\ \A o \in Members(s.out) : o.conn <= s.client.conns
    BY TrackedTypes, PeerTypes, Zenon DEF Placed
  <1>3. /\ t \in Tracked /\ t.client = s.client
        /\ Alike(s.conn, t.conn) /\ t.conn.pending = <<>>
        /\ Numbered(t.out, <<>>, s.client.sent) /\ EntryGood(t.conn)
        /\ Joined(s.out, t.out, s.conn.initial_dcid[1])
    BY <1>1, <1>2, DeliverHeld, Zenon
  <1>4. /\ t \in PeerState /\ t.conn.live /\ HeldBy(t.conn) = <<>> /\ t.out \in Seq(SentOut)
        /\ t.conn.initial_dcid = s.conn.initial_dcid
    BY <1>3, TrackedTypes, PeerTypes, Zenon DEF Alike
  <1>5. \A o \in Members(t.out) : o.conn <= s.client.conns
    BY <1>2, <1>3, <1>4, JoinedPast, Zenon
  <1>6. Placed(t) /\ Offered(t, d)
    BY <1>2, <1>3, <1>4, <1>5, Zenon DEF Placed, Offered
  <1>7. r = accept_packet(t, <<d>>)
    BY <1>1, Zenon DEF accept_pending_and_current, Decided
  <1>8. /\ r \in PeerState /\ r.conn = t.conn /\ r.client = t.client
        /\ Numbered(r.out, <<>>, t.client.sent + 1)
        /\ \A o \in Members(r.out) : o.conn <= t.client.conns
    <2>1. PICK v : v = accept_packet(t, <<d>>)
      OBVIOUS
    <2>2. /\ v \in PeerState /\ v.conn = t.conn /\ v.client = t.client
          /\ Numbered(v.out, <<>>, t.client.sent + 1)
          /\ \A o \in Members(v.out) : o.conn <= t.client.conns
      BY <1>4, <1>6, <2>1, AcceptOne, Zenon
    <2> QED BY <1>7, <2>1, <2>2, Zenon
  <1>9. r.client.conns # 0 /\ r.client.lost
    BY <1>3, <1>8, Zenon DEF Placed
  <1> QED BY <1>2, <1>3, <1>4, <1>8, <1>9, Zenon DEF Arrived, Excused

\* A client that is lost and has no entry.
LEMMA LostArrives ==
    ASSUME NEW p, NEW s, NEW d, Placed(s), Offered(s, d), s.client.lost, ~s.conn.live,
           NEW r, r = accept_packet(s, <<d>>)
    PROVE  Arrived(p, r)
  <1>1. HeldBy(s.conn) = <<>>
    BY Zenon DEF HeldBy
  <1>2. /\ r \in PeerState /\ r.conn = s.conn /\ r.client = s.client
        /\ Numbered(r.out, <<>>, s.client.sent + 1)
        /\ \A o \in Members(r.out) : o.conn <= s.client.conns
    BY <1>1, AcceptOne, Zenon
  <1>3. r.client.conns # 0
    BY <1>2, Zenon DEF Placed
  <1> QED BY <1>1, <1>2, <1>3, Zenon DEF Arrived, Excused

\* Giving the client up leaves the datagram it sends as it is.
LEMMA LostOffered ==
    ASSUME NEW s, NEW d, Placed(s), Offered(s, d), NEW r, r = Lost(s)
    PROVE  /\ Placed(r) /\ Offered(r, d) /\ r.client.lost /\ r.conn = s.conn
           /\ s \in Tracked => r \in Tracked
  <1>1. s \in PeerState
    BY Zenon DEF Placed
  <1>2. /\ r \in PeerState /\ r.conn = s.conn /\ r.client.lost = TRUE
        /\ r.client.conns = s.client.conns /\ r.client.sent = s.client.sent
        /\ r.client.dcid = s.client.dcid /\ r.client.key = s.client.key
        /\ r.client.started = s.client.started
    BY <1>1, LostIs, Zenon
  <1>3. Placed(r)
    BY LostPlaced, Zenon
  <1> QED BY <1>2, <1>3, Zenon DEF Offered, Tracked

\* h is s with one datagram more held.
HeldMore(s, h) ==
    /\ h \in Tracked /\ h.out = s.out /\ h.client = s.client
    /\ Alike(s.conn, h.conn) /\ h.conn.decision = "PENDING"
    /\ h.conn.fd = s.conn.fd /\ h.conn.proxy_sent = s.conn.proxy_sent
    /\ Numbered(h.out, h.conn.pending, s.client.sent + 1) /\ EntryGood(h.conn)

\* What an undecided entry of the connection is known to have.
LEMMA HoldingFacts ==
    ASSUME NEW p, NEW s, NEW d, Holding(p, s, d)
    PROVE  /\ s \in Tracked /\ s \in PeerState /\ s.conn \in Entry /\ d \in Dgram
           /\ s.client.sent \in Nat /\ s.client.conns \in Nat /\ s.client.conns # 0
           /\ s.out \in Seq(SentOut) /\ s.conn.pending \in Seq(Dgram)
           /\ s.conn.proxy_sent \in BOOLEAN
           /\ s.conn.initial_dcid = <<s.client.conns, s.client.dcid>>
           /\ s.conn.initial_dcid[1] = s.client.conns
           /\ d.n = s.client.sent + 1 /\ d.conn = s.client.conns
           /\ Numbered(s.out, s.conn.pending, s.client.sent) /\ EntryGood(s.conn)
           /\ \A o \in Members(s.out) : o.conn <= s.client.conns
           /\ s.client.conns <= s.client.conns
  <1>1. /\ s \in Tracked /\ Placed(s) /\ Offered(s, d)
        /\ s.conn.initial_dcid = <<s.client.conns, s.client.dcid>>
    BY Zenon DEF Holding, Offered
  <1>2. s \in PeerState
    BY <1>1, Zenon DEF Placed
  <1>3. s.conn.initial_dcid[1] = s.client.conns
    BY <1>1
  <1>4. /\ s.client.sent \in Nat /\ s.client.conns \in Nat /\ s.out \in Seq(SentOut)
        /\ s.conn.pending \in Seq(Dgram) /\ s.conn.proxy_sent \in BOOLEAN
        /\ s.conn.live /\ HeldBy(s.conn) = s.conn.pending /\ s.conn \in Entry
    BY <1>1, <1>2, TrackedTypes, PeerTypes, Zenon
  <1>5. s.client.conns <= s.client.conns
    BY <1>4
  <1> QED BY <1>1, <1>2, <1>3, <1>4, <1>5, Zenon DEF Placed, Offered

\* A datagram is held, and its fragments are collected.
LEMMA HoldingMore ==
    ASSUME NEW p, NEW s, NEW d, Holding(p, s, d), sn_now \in Nat,
           NEW h, h = pending_append(s, d)
    PROVE  /\ HeldMore(s, h)
           /\ HeldMore(s, collect_crypto_frames(h, d))
  <1>1. /\ s \in Tracked /\ d \in Dgram /\ s.out \in Seq(SentOut) /\ s.conn.pending \in Seq(Dgram)
        /\ s.client.sent \in Nat /\ d.n = s.client.sent + 1 /\ d.conn = s.client.conns
        /\ s.conn.initial_dcid[1] = s.client.conns
        /\ Numbered(s.out, s.conn.pending, s.client.sent) /\ EntryGood(s.conn)
    BY HoldingFacts, Zenon
  <1>2. /\ h \in Tracked /\ h.out = s.out /\ h.client = s.client
        /\ Alike(s.conn, h.conn) /\ h.conn.decision = s.conn.decision
        /\ h.conn.pending = Append(s.conn.pending, d)
        /\ h.conn.fd = s.conn.fd /\ h.conn.proxy_sent = s.conn.proxy_sent
    BY <1>1, HeldIs, Zenon
  <1>3. s.conn.decision = "PENDING"
    BY Zenon DEF Holding
  <1>4. Numbered(h.out, h.conn.pending, s.client.sent + 1)
    BY <1>1, <1>2, NumberedAppend, Zenon
  <1>5. EntryGood(h.conn)
    <2>1. Members(h.conn.pending) = Members(s.conn.pending) \union {d}
      BY <1>1, <1>2, MembersAppend, Zenon
    <2>2. h.conn.initial_dcid = s.conn.initial_dcid /\ h.conn.server_scid = s.conn.server_scid
      BY <1>2, Zenon DEF Alike
    <2> QED BY <1>1, <1>2, <1>3, <2>1, <2>2, Zenon DEF EntryGood
  <1>6. HeldMore(s, h)
    BY <1>2, <1>3, <1>4, <1>5, Zenon DEF HeldMore
  <1>7. PICK g : g = collect_crypto_frames(h, d)
    OBVIOUS
  <1>8. /\ g \in Tracked /\ g.out = h.out /\ g.client = h.client
        /\ Alike(h.conn, g.conn) /\ g.conn.decision = h.conn.decision
        /\ g.conn.pending = h.conn.pending
        /\ g.conn.fd = h.conn.fd /\ g.conn.proxy_sent = h.conn.proxy_sent
    <2>1. h \in Tracked /\ d \in Dgram
      BY <1>1, <1>2, Zenon
    <2> QED BY <1>7, <2>1, CollectedIs
  <1>9. EntryGood(g.conn) /\ Alike(s.conn, g.conn)
    BY <1>2, <1>5, <1>8, EntryAlike, Zenon DEF Alike
  <1>10. HeldMore(s, g)
    BY <1>6, <1>8, <1>9, Zenon DEF HeldMore
  <1> QED BY <1>6, <1>7, <1>10, Zenon

\* An undecided connection of a name that is not served has nothing to show.
LEMMA UndecidedHeaded ==
    ASSUME NEW s \in PeerState, NEW k \in Nat, NEW ps \in BOOLEAN, ~ps, NoneLeft(s.out, k)
    PROVE  Headed(s.out, k, ps)
  <1>1. s.out \in Seq(SentOut)
    BY PeerTypes, Zenon
  <1>2. Headed(s.out, k, FALSE)
    BY <1>1, HeadedNone, Zenon
  <1>3. ps = FALSE
    OBVIOUS
  <1> QED BY <1>2, <1>3, Zenon

\* The decision is made, or is not needed any more.
LEMMA DecidedArrives ==
    ASSUME NEW p, NEW s, NEW d, Holding(p, s, d), NEW h, HeldMore(s, h), sn_case.pp \in BOOLEAN,
           NEW x \in {"ACCEPT", "FALLBACK"},
           \/ Excused(s)
           \/ x = IF sni_router_match(Name(p, s.client.conns)) THEN "ACCEPT" ELSE "FALLBACK",
           NEW r, r = deliver_pending(Decided(h, x))
    PROVE  Arrived(p, r)
  <1> DEFINE k == s.client.conns
  <1>1. /\ s \in PeerState /\ s.client.sent \in Nat /\ k \in Nat /\ k # 0
        /\ s.conn.initial_dcid = <<k, s.client.dcid>> /\ s.conn.initial_dcid[1] = k
        /\ \A o \in Members(s.out) : o.conn <= k
        /\ k <= k /\ s.conn.proxy_sent \in BOOLEAN
    BY HoldingFacts, Zenon
  <1>2. /\ h \in Tracked /\ h.out = s.out /\ h.client = s.client
        /\ h.conn.initial_dcid = s.conn.initial_dcid /\ h.conn.server_scid = s.conn.server_scid
        /\ h.conn.proxy_sent = s.conn.proxy_sent
        /\ Numbered(h.out, h.conn.pending, s.client.sent + 1) /\ EntryGood(h.conn)
    BY Zenon DEF HeldMore, Alike
  <1>3. PICK m \in Nat : m = s.client.sent + 1
    BY <1>1
  <1>4. /\ r \in Tracked /\ r.client = h.client
        /\ Alike(h.conn, r.conn) /\ r.conn.decision = x /\ r.conn.pending = <<>>
        /\ Numbered(r.out, <<>>, m) /\ EntryGood(r.conn)
        /\ x = "ACCEPT" => Joined(h.out, r.out, h.conn.initial_dcid[1])
        /\ x = "FALLBACK" =>
             /\ JoinedNot(h.out, r.out, h.conn.initial_dcid[1])
             /\ Headed(h.out, h.conn.initial_dcid[1], h.conn.proxy_sent)
                  => Headed(r.out, h.conn.initial_dcid[1], r.conn.proxy_sent)
    <2>1. h \in Tracked /\ EntryGood(h.conn) /\ Numbered(h.out, h.conn.pending, m)
      BY <1>2, <1>3, Zenon
    <2> QED BY <2>1, DeliverHeld, Zenon
  <1>5. /\ r \in PeerState /\ r.conn.live /\ HeldBy(r.conn) = <<>> /\ r.out \in Seq(SentOut)
        /\ r.conn.initial_dcid = s.conn.initial_dcid /\ r.conn.server_scid = s.conn.server_scid
        /\ r.client = s.client
    BY <1>2, <1>4, TrackedTypes, PeerTypes, Zenon DEF Alike
  <1>6. /\ x = "ACCEPT" => Joined(s.out, r.out, k)
        /\ x = "FALLBACK" =>
             /\ JoinedNot(s.out, r.out, k)
             /\ Headed(s.out, k, s.conn.proxy_sent) => Headed(r.out, k, r.conn.proxy_sent)
    BY <1>1, <1>2, <1>4, Zenon
  <1>7. \A o \in Members(r.out) : o.conn <= k
    BY <1>1, <1>5, <1>6, JoinedPast, Zenon
  <1>8. ASSUME ~Excused(s)
        PROVE  Routed(p, r)
    <2>1. CASE sni_router_match(Name(p, k))
      <3>1. x = "ACCEPT" /\ AllAccepted(s.out, k)
        BY <1>8, <2>1, Zenon DEF Holding
      <3>2. r.conn.decision # "FALLBACK"
        BY <1>4, <3>1
      <3>3. Served(r)
        BY <1>5, <1>6, <3>1, <3>2, JoinedLeft, Zenon DEF Served
      <3> QED BY <1>1, <1>5, <2>1, <3>3, Zenon DEF Routed
    <2>2. CASE ~sni_router_match(Name(p, k))
      <3>1. /\ x = "FALLBACK" /\ Undecided(s)
            /\ s.conn.server_scid \in {NoId, <<k, ServerId>>}
        BY <1>8, <2>2, Zenon DEF Holding
      <3>2. r.conn.decision # "ACCEPT" /\ r.conn.decision # "PENDING"
        BY <1>4, <3>1
      <3>3. s.client.dcid = "orig" /\ ~s.conn.proxy_sent /\ NoneLeft(s.out, k)
        BY <3>1, Zenon DEF Undecided
      <3>4. IdsKnown(r)
        BY <1>1, <1>5, <3>1, <3>3, Zenon DEF IdsKnown
      <3>5. NoneAccepted(r.out, k)
        BY <1>6, <3>1, <3>3, JoinedLeft, Zenon
      <3>6. Headed(r.out, k, r.conn.proxy_sent)
        BY <1>1, <1>6, <3>1, <3>3, UndecidedHeaded, Zenon
      <3>7. Unserved(r)
        BY <1>5, <3>2, <3>4, <3>5, <3>6, Zenon DEF Unserved
      <3> QED BY <1>1, <1>5, <2>2, <3>7, Zenon DEF Routed
    <2> QED BY <2>1, <2>2, Zenon
  <1> QED BY <1>1, <1>3, <1>4, <1>5, <1>7, <1>8, Zenon DEF Arrived, Excused

\* The hello is not complete yet.
LEMMA HeldArrives ==
    ASSUME NEW p, NEW s, NEW d, Holding(p, s, d), NEW r, HeldMore(s, r)
    PROVE  Arrived(p, r)
  <1> DEFINE k == s.client.conns
  <1>1. /\ s \in PeerState /\ s.client.sent \in Nat /\ k \in Nat /\ k # 0
        /\ s.conn.initial_dcid = <<k, s.client.dcid>> /\ s.conn.initial_dcid[1] = k
        /\ \A o \in Members(s.out) : o.conn <= k
        /\ k <= k /\ s.conn.proxy_sent \in BOOLEAN
    BY HoldingFacts, Zenon
  <1>2. /\ r \in Tracked /\ r.out = s.out /\ r.client = s.client
        /\ r.conn.initial_dcid = s.conn.initial_dcid /\ r.conn.server_scid = s.conn.server_scid
        /\ r.conn.proxy_sent = s.conn.proxy_sent /\ r.conn.fd = s.conn.fd
        /\ r.conn.decision = "PENDING"
        /\ Numbered(r.out, r.conn.pending, s.client.sent + 1) /\ EntryGood(r.conn)
    BY Zenon DEF HeldMore, Alike
  <1>3. r \in PeerState /\ r.conn.live /\ HeldBy(r.conn) = r.conn.pending
    BY <1>2, TrackedTypes, Zenon
  <1>4. ASSUME ~Excused(s)
        PROVE  Routed(p, r)
    <2>1. r.conn.decision # "FALLBACK" /\ r.conn.decision # "ACCEPT"
      BY <1>2
    <2>2. CASE sni_router_match(Name(p, k))
      <3>1. AllAccepted(s.out, k)
        BY <1>4, <2>2, Zenon DEF Holding
      <3> QED BY <1>1, <1>2, <1>3, <2>1, <2>2, <3>1, Zenon DEF Routed, Served
    <2>3. CASE ~sni_router_match(Name(p, k))
      <3>1. Undecided(s) /\ s.conn.server_scid \in {NoId, <<k, ServerId>>}
        BY <1>4, <2>3, Zenon DEF Holding
      <3>2. /\ s.client.dcid = "orig" /\ ~s.conn.proxy_sent /\ NoneLeft(s.out, k)
            /\ Undecided(r)
        BY <1>2, <3>1, Zenon DEF Undecided
      <3>3. IdsKnown(r)
        BY <1>1, <1>2, <3>1, <3>2, Zenon DEF IdsKnown
      <3>4. NoneAccepted(r.out, k)
        BY <1>2, <3>2, JoinedLeft, Zenon
      <3>5. Headed(r.out, k, r.conn.proxy_sent)
        BY <1>1, <1>2, <3>2, UndecidedHeaded, Zenon
      <3>6. Unserved(r)
        BY <1>2, <2>1, <3>2, <3>3, <3>4, <3>5, Zenon DEF Unserved
      <3> QED BY <1>1, <1>2, <1>3, <2>3, <3>6, Zenon DEF Routed
    <2> QED BY <2>2, <2>3, Zenon
  <1> QED BY <1>1, <1>2, <1>3, <1>4, Zenon DEF Arrived, Excused

\* An Initial of an undecided connection.
LEMMA HoldArrives ==
    ASSUME NEW p, NEW s, NEW d, Holding(p, s, d), sn_now \in Nat, sn_case.pp \in BOOLEAN,
           NEW r, r = HoldAndDecide(s, p, d)
    PROVE  Arrived(p, r)
  <1> DEFINE x == IF sni_router_match(Name(p, d.conn)) THEN "ACCEPT" ELSE "FALLBACK"
  <1>1. PICK h : h = pending_append(s, d)
    OBVIOUS
  <1>2. PICK g : g = collect_crypto_frames(h, d)
    OBVIOUS
  <1>3. HeldMore(s, h) /\ HeldMore(s, g)
    BY <1>1, <1>2, HoldingMore, Zenon
  <1>4. /\ s \in Tracked /\ Placed(s) /\ Offered(s, d) /\ d.conn = s.client.conns
        /\ d.opens = (s.client.dcid = s.client.key)
    BY Zenon DEF Holding, Offered
  <1>5. CASE Len(s.conn.pending) >= sn_max_pending_packets
    <2>1. PICK u : u = Lost(s)
      OBVIOUS
    <2>2. Placed(u) /\ Offered(u, d) /\ u.client.lost /\ u \in Tracked
      BY <1>4, <2>1, LostOffered, Zenon
    <2>3. r = accept_pending_and_current(u, d, FALSE)
      BY <1>5, <2>1, Zenon DEF HoldAndDecide
    <2> QED BY <2>2, <2>3, AcceptAllArrives, Zenon
  <1>6. CASE ~(Len(s.conn.pending) >= sn_max_pending_packets) /\ ~d.opens
    <2>1. r = deliver_pending(Decided(h, "ACCEPT"))
      BY <1>1, <1>6, Zenon DEF HoldAndDecide, decrypt_initial_with_state, accept_pending_and_current,
         Decided
    <2>2. Excused(s) \/ sni_router_match(Name(p, s.client.conns))
      BY <1>4, <1>6, Zenon DEF Holding, Undecided
    <2> QED BY <1>3, <2>1, <2>2, DecidedArrives, Zenon
  <1>7. CASE /\ ~(Len(s.conn.pending) >= sn_max_pending_packets) /\ d.opens
             /\ client_hello_status(g.conn)
    <2>1. r = deliver_pending(Decided(g, x))
      BY <1>1, <1>2, <1>7, Zenon DEF HoldAndDecide, decrypt_initial_with_state, Decided
    <2>2. x \in {"ACCEPT", "FALLBACK"}
      OBVIOUS
    <2>3. x = IF sni_router_match(Name(p, s.client.conns)) THEN "ACCEPT" ELSE "FALLBACK"
      BY <1>4, Zenon
    <2> HIDE DEF x
    <2> QED BY <1>3, <2>1, <2>2, <2>3, DecidedArrives, Zenon
  <1>8. CASE /\ ~(Len(s.conn.pending) >= sn_max_pending_packets) /\ d.opens
             /\ ~client_hello_status(g.conn)
    <2>1. r = g
      BY <1>1, <1>2, <1>8, Zenon DEF HoldAndDecide, decrypt_initial_with_state
    <2> QED BY <1>3, <2>1, HeldArrives, Zenon
  <1> QED BY <1>5, <1>6, <1>7, <1>8, Zenon

\* A connection without an entry gets one.
LEMMA CreatedHolds ==
    ASSUME NEW p, NEW s, NEW d, ReadyFor(p, s, d), ~s.conn.live, sn_now \in Nat,
           NEW r, r = connection_create(s, d)
    PROVE  Holding(p, r, d)
  <1>1. /\ Placed(s) /\ Offered(s, d) /\ (Excused(s) \/ Clear(p, s)) /\ s \in PeerState
        /\ d \in Dgram /\ d.dcid = <<s.client.conns, s.client.dcid>>
    BY Zenon DEF ReadyFor, Placed, Offered
  <1>2. s.client.conns \in Nat /\ s.client.dcid \in Ids
    BY <1>1, PeerTypes, Zenon
  <1>3. PICK c : c = [live |-> TRUE, decision |-> "PENDING", fd |-> FALSE, proxy_sent |-> FALSE,
                      last_seen |-> sn_now, initial_dcid |-> d.dcid, server_scid |-> NoId,
                      crypto |-> {}, pending |-> <<>>]
    BY Zenon
  <1>4. d.dcid \in Nat \X Ids /\ d.dcid[1] = s.client.conns
    BY <1>1, <1>2
  <1>5. NoId \in Nat \X Ids /\ NoId[1] = 0
    BY DEF NoId, Ids
  <1>6. /\ c \in Entry /\ c.decision = "PENDING" /\ c.fd = FALSE /\ c.proxy_sent = FALSE
        /\ c.initial_dcid = d.dcid /\ c.server_scid = NoId /\ c.pending = <<>>
    BY <1>3, <1>4, <1>5 DEF Entry, Decisions
  <1>7. r = PutConn(s, c)
    BY <1>3, Zenon DEF connection_create, PutConn
  <1>8. r \in Tracked /\ r.conn = c /\ r.out = s.out /\ r.client = s.client
    <2>1. /\ PutConn(s, c) \in Tracked /\ PutConn(s, c).conn = c
          /\ PutConn(s, c).out = s.out /\ PutConn(s, c).client = s.client
      BY <1>1, <1>6, ConnWritten, Zenon
    <2> QED BY <1>7, <2>1, Zenon
  <1>9. EntryGood(r.conn)
    <2>1. Members(<<>>) = {}
      BY DEF Members
    <2>2. r.conn.server_scid[1] <= r.conn.initial_dcid[1]
      BY <1>2, <1>4, <1>5, <1>6, <1>8
    <2> QED BY <1>6, <1>8, <2>1, <2>2, Zenon DEF EntryGood
  <1>10. Placed(r)
    <2>1. r \in PeerState /\ HeldBy(r.conn) = <<>>
      BY <1>6, <1>8, TrackedTypes, Zenon
    <2>2. HeldBy(s.conn) = <<>>
      BY Zenon DEF HeldBy
    <2>3. r.conn.initial_dcid[1] <= r.client.conns
      BY <1>2, <1>4, <1>6, <1>8
    <2> QED BY <1>1, <1>8, <1>9, <2>1, <2>2, <2>3, Zenon DEF Placed
  <1>11. Offered(r, d)
    BY <1>1, <1>8, Zenon DEF Offered
  <1>12. \/ Excused(r)
         \/ IF sni_router_match(Name(p, r.client.conns)) THEN AllAccepted(r.out, r.client.conns)
            ELSE Undecided(r) /\ r.conn.server_scid \in {NoId, <<r.client.conns, ServerId>>}
    BY <1>1, <1>6, <1>8, Zenon DEF Clear, Undecided, Excused
  <1> QED BY <1>6, <1>8, <1>10, <1>11, <1>12, Zenon DEF Holding

\* The client of an unserved connection that is on its way never starts anew.
LEMMA KnownStays ==
    ASSUME NEW s \in Tracked, NEW d, Offered(s, d), Unserved(s)
    PROVE  ~StartsAnew(s.conn, d)
  <1>1. /\ s.conn.initial_dcid = <<s.client.conns, "orig">>
        /\ d.dcid = <<s.client.conns, s.client.dcid>>
        /\ s.conn.decision \in Decisions /\ s.conn.decision # "ACCEPT"
        /\ s.conn.decision = "PENDING" => s.client.dcid = "orig"
    BY TrackedTypes, Zenon DEF Unserved, IdsKnown, Offered, Undecided
  <1>2. CASE s.client.dcid = "orig"
    BY <1>1, <1>2, Zenon DEF StartsAnew
  <1>3. CASE s.client.dcid # "orig"
    <2>1. s.client.dcid = ServerId /\ s.conn.server_scid = <<s.client.conns, ServerId>>
      BY <1>3, Zenon DEF Unserved, IdsKnown
    <2>2. s.conn.decision = "FALLBACK"
      BY <1>1, <1>3 DEF Decisions
    <2>3. s.conn.server_scid = d.dcid
      BY <1>1, <2>1, Zenon
    <2>4. s.conn.server_scid # NoId
      <3>1. ServerId # "none"
        BY DEF ServerId
      <3> QED BY <2>1, <3>1 DEF NoId
    <2> QED BY <2>2, <2>3, <2>4, Zenon DEF StartsAnew, connection_matches_server_scid
  <1> QED BY <1>2, <1>3, Zenon

\* The first Initial of a connection is not of an older entry.
LEMMA FreshStarts ==
    ASSUME NEW s \in Tracked, NEW d, Offered(s, d), Placed(s), Fresh(s), ~s.client.started
    PROVE  StartsAnew(s.conn, d)
  <1>1. /\ s.conn.live /\ s.conn.initial_dcid[1] \in Nat /\ s.conn.server_scid[1] \in Nat
        /\ s.client.conns \in Nat
    BY TrackedTypes, PeerTypes, Zenon DEF Placed
  <1>2. /\ s.conn.initial_dcid[1] < s.client.conns
        /\ s.conn.server_scid[1] <= s.conn.initial_dcid[1]
    BY <1>1, Zenon DEF Fresh, Placed, EntryGood
  <1>3. d.dcid = <<s.client.conns, s.client.dcid>> /\ d.type = "initial"
    BY Zenon DEF Offered
  <1>4. d.dcid[1] = s.client.conns
    BY <1>3
  <1>5. s.conn.initial_dcid # d.dcid /\ s.conn.server_scid # d.dcid
    BY <1>1, <1>2, <1>4
  <1> QED BY <1>1, <1>3, <1>5, Zenon DEF StartsAnew, connection_matches_server_scid, parse_initial_header

\* What the router finds once it has made room for the connection of d.
LEMMA Readied ==
    ASSUME NEW p, NEW s, PeerInv(p, s), NEW d, Offered(s, d), sn_case.pp \in BOOLEAN,
           NEW r, r = IF StartsAnew(s.conn, d) THEN GiveUp(s) ELSE s
    PROVE  ReadyFor(p, r, d) /\ (r.conn.live => r.conn = s.conn /\ s.conn.live)
  <1>1. Placed(s) /\ s \in PeerState
    BY Zenon DEF PeerInv, Placed
  <1>2. CASE StartsAnew(s.conn, d)
    <2>1. s.conn.live /\ s \in Tracked
      BY <1>1, <1>2, LiveOrNot, Zenon DEF StartsAnew
    <2>2. r = GiveUp(s)
      BY <1>2, Zenon
    <2>3. /\ Placed(r) /\ ~r.conn.live /\ r.client = s.client
          /\ Joined(s.out, r.out, s.conn.initial_dcid[1])
      BY <1>1, <2>1, <2>2, GivenUp, Zenon
    <2>4. Offered(r, d)
      BY <2>3, Zenon DEF Offered
    <2>5. CASE s.client.started
      <3>1. Excused(s) \/ Routed(p, s)
        BY <2>5, Zenon DEF PeerInv
      <3>2. ~Unserved(s)
        BY <1>2, <2>1, KnownStays, Zenon
      <3>3. Served(s) => AllAccepted(r.out, r.client.conns)
        BY <2>3, JoinedLeft, Zenon DEF Served
      <3>4. Excused(s) \/ Clear(p, r)
        BY <2>3, <3>1, <3>2, <3>3, Zenon DEF Routed, Clear
      <3> QED BY <2>3, <2>4, <3>4, Zenon DEF ReadyFor, Excused
    <2>6. CASE ~s.client.started
      <3>1. Fresh(s)
        BY <2>6, Zenon DEF PeerInv
      <3>2. s.conn.initial_dcid[1] # s.client.conns
        <4>1. s.conn.initial_dcid[1] < s.client.conns /\ s.conn.initial_dcid[1] \in Nat
              /\ s.client.conns \in Nat
          BY <1>1, <2>1, <3>1, TrackedTypes, PeerTypes, Zenon DEF Fresh
        <4> QED BY <4>1
      <3>3. NoneLeft(r.out, s.client.conns) /\ AllAccepted(r.out, s.client.conns)
        BY <2>3, <3>1, <3>2, JoinedLeft, Zenon DEF Fresh
      <3>4. Clear(p, r)
        BY <2>3, <3>1, <3>3, Zenon DEF Clear, Fresh
      <3> QED BY <2>3, <2>4, <3>4, Zenon DEF ReadyFor
    <2> QED BY <2>3, <2>5, <2>6, Zenon
  <1>3. CASE ~StartsAnew(s.conn, d)
    <2>1. r = s
      BY <1>3, Zenon
    <2>2. CASE s.conn.live
      <3>1. s.client.started
        <4>1. s \in Tracked
          BY <1>1, <2>2, LiveOrNot, Zenon
        <4> QED BY <1>1, <1>3, <4>1, FreshStarts, Zenon DEF PeerInv
      <3>2. Excused(s) \/ Routed(p, s)
        BY <3>1, Zenon DEF PeerInv
      <3> QED BY <1>1, <1>3, <2>1, <2>2, <3>2, Zenon DEF ReadyFor
    <2>3. CASE ~s.conn.live
      <3>1. s.client.started => Excused(s)
        BY <2>3, Zenon DEF PeerInv, Routed
      <3>2. ~s.client.started => Clear(p, s)
        <4>1. Fresh(s) => AllAccepted(s.out, s.client.conns)
          BY JoinedLeft, Zenon DEF Fresh
        <4> QED BY <4>1, Zenon DEF PeerInv, Clear, Fresh
      <3> QED BY <1>1, <2>1, <2>3, <3>1, <3>2, Zenon DEF ReadyFor
    <2> QED BY <2>2, <2>3, Zenon
  <1> QED BY <1>2, <1>3, Zenon

\* An Initial of the connection of an undecided entry.
LEMMA PendingHolds ==
    ASSUME NEW p, NEW s, NEW d, ReadyFor(p, s, d), s.conn.live, s.conn.decision = "PENDING",
           d.type = "initial"
    PROVE  Holding(p, s, d)
  <1>1. /\ Placed(s) /\ Offered(s, d) /\ s \in Tracked /\ (Excused(s) \/ Routed(p, s))
        /\ ~StartsAnew(s.conn, d)
    BY LiveOrNot, Zenon DEF ReadyFor, Placed
  <1>2. s.conn.initial_dcid = d.dcid
    <2>1. s.conn.decision # "FALLBACK"
      OBVIOUS
    <2> QED BY <1>1, <2>1, Zenon DEF StartsAnew, connection_matches_server_scid, parse_initial_header
  <1>3. Routed(p, s) =>
          IF sni_router_match(Name(p, s.client.conns)) THEN AllAccepted(s.out, s.client.conns)
          ELSE Undecided(s) /\ s.conn.server_scid \in {NoId, <<s.client.conns, ServerId>>}
    BY Zenon DEF Routed, Served, Unserved, IdsKnown
  <1> QED BY <1>1, <1>2, <1>3, Zenon DEF Holding

-----------------------------------------------------------------------------
(* The steps.                                                              *)

\* What counting in a finite set of peers gives.
SnCounting ==
    \A S \in SUBSET SnPeers :
        /\ Cardinality(S) \in Nat
        /\ \A T \in SUBSET S : Cardinality(T) <= Cardinality(S)
        /\ \A p \in SnPeers : Cardinality(S \union {p}) <= Cardinality(S) + 1
        /\ \A p \in S : Cardinality(S \ {p}) = Cardinality(S) - 1

\* The state that a step commits.
StateGood(at) ==
    /\ \A p \in SnPeers : PeerInv(p, at[p])
    /\ Cardinality(Entries(at)) <= sn_max_tracked_conns

\* The invariant speaks of one peer at a time, and of the table.
LEMMA CurGood ==
    ASSUME SniInv
    PROVE  /\ \A p \in SnPeers : SnCur[p] = Peer(p) /\ PeerInv(p, Peer(p))
           /\ StateGood(SnCur)
           /\ sn_case \in SnCases /\ sn_now \in Nat
  BY Zenon DEF SniInv, SnCur, StateGood

\* The fields of what is known of a peer.
LEMMA PeerFields ==
    ASSUME NEW p
    PROVE  /\ Peer(p).conn = sn_conn[p] /\ Peer(p).out = sn_out[p]
           /\ Peer(p).client = sn_client[p]
  BY DEF Peer

\* A step that commits a good state keeps the invariant.
LEMMA CommitKeeps ==
    ASSUME SniInv, NEW at, SnCommit(at), StateGood(at)
    PROVE  SniInv'
  <1>1. sn_case' = sn_case /\ sn_now' = sn_now /\ sn_case \in SnCases /\ sn_now \in Nat
    BY Zenon DEF SnCommit, SniInv
  <1>2. /\ sn_conn' = [p \in SnPeers |-> at[p].conn]
        /\ sn_out' = [p \in SnPeers |-> at[p].out]
        /\ sn_client' = [p \in SnPeers |-> at[p].client]
    BY Zenon DEF SnCommit
  <1>3. /\ sn_conn' = [p \in SnPeers |-> sn_conn'[p]]
        /\ sn_out' = [p \in SnPeers |-> sn_out'[p]]
        /\ sn_client' = [p \in SnPeers |-> sn_client'[p]]
    BY <1>2, Zenon
  <1>4. ASSUME NEW p \in SnPeers
        PROVE  Peer(p)' = at[p] /\ PeerInv(p, Peer(p))'
    <2>1. PICK s : s = at[p]
      OBVIOUS
    <2>2. PeerInv(p, s) /\ s \in PeerState
      BY <2>1, Zenon DEF StateGood, PeerInv, Placed
    <2>3. sn_conn'[p] = s.conn /\ sn_out'[p] = s.out /\ sn_client'[p] = s.client
      BY <1>2, <2>1, Zenon
    <2>4. Peer(p)' = s
      BY <2>2, <2>3 DEF Peer, PeerState
    <2>5. Placed(Peer(p))'
      BY <2>2, <2>4, Zenon DEF PeerInv, Placed
    <2>6. Fresh(s) => Fresh(Peer(p))'
      BY <2>4, Zenon DEF Fresh
    <2>7. Routed(p, s) => Routed(p, Peer(p))'
      <3>1. ServerId' = ServerId
        BY <1>1, Zenon DEF ServerId
      <3>2. Served(s) => Served(Peer(p))'
        BY <2>4, Zenon DEF Served
      <3>3. IdsKnown(s) => IdsKnown(Peer(p))'
        BY <2>4, <3>1, Zenon DEF IdsKnown
      <3>4. Undecided(s) => Undecided(Peer(p))'
        BY <2>4, Zenon DEF Undecided
      <3>5. Headed(s.out, s.client.conns, s.conn.proxy_sent)
              => Headed(Peer(p).out, Peer(p).client.conns, Peer(p).conn.proxy_sent)'
        BY <1>1, <2>4, Zenon DEF Headed
      <3>6. Unserved(s) => Unserved(Peer(p))'
        BY <2>4, <3>3, <3>4, <3>5, Zenon DEF Unserved
      <3> QED BY <1>1, <2>4, <3>2, <3>6, Zenon DEF Routed, Name
    <2> QED BY <1>1, <2>1, <2>2, <2>4, <2>5, <2>6, <2>7, Zenon DEF PeerInv, Excused
  <1>5. Entries(SnCur)' = Entries(at)
    <2>1. \A p \in SnPeers : SnCur'[p].conn.live = at[p].conn.live
      BY <1>4, Zenon DEF SnCur
    <2> QED BY <2>1, Zenon DEF Entries
  <1>6. Cardinality(Entries(SnCur))' <= sn_max_tracked_conns
    BY <1>5, Zenon DEF StateGood
  <1> QED BY <1>1, <1>3, <1>4, <1>6, Zenon DEF SniInv

\* What a step knows of one peer is written.
LEMMA WriteGood ==
    ASSUME SniInv, SnCounting, sn_max_tracked_conns \in Nat, NEW p \in SnPeers,
           NEW t, PeerInv(p, t), t.conn.live => sn_conn[p].live
    PROVE  StateGood([SnCur EXCEPT ![p] = t])
  <1>1. PICK at : at = [SnCur EXCEPT ![p] = t]
    BY Zenon
  <1>2. \A q \in SnPeers : at[q] = IF q = p THEN t ELSE Peer(q)
    BY <1>1, Zenon DEF SnCur
  <1>3. \A q \in SnPeers : SnCur[q] = Peer(q) /\ Peer(q).conn = sn_conn[q] /\ PeerInv(q, Peer(q))
    BY CurGood, PeerFields, Zenon
  <1>4. Entries(at) \in SUBSET Entries(SnCur) /\ Entries(SnCur) \in SUBSET SnPeers
    BY <1>2, <1>3, Zenon DEF Entries
  <1>5. Cardinality(Entries(at)) <= sn_max_tracked_conns
    <2>1. /\ Cardinality(Entries(at)) <= Cardinality(Entries(SnCur))
          /\ Cardinality(Entries(SnCur)) \in Nat /\ Cardinality(Entries(SnCur)) <= sn_max_tracked_conns
      BY <1>4, CurGood, Zenon DEF SnCounting, StateGood
    <2>2. Cardinality(Entries(at)) \in Nat
      <3>1. Entries(at) \in SUBSET SnPeers
        BY <1>4, Zenon
      <3> QED BY <3>1, Zenon DEF SnCounting
    <2> QED BY <2>1, <2>2
  <1>6. \A q \in SnPeers : PeerInv(q, at[q])
    BY <1>2, <1>3, Zenon
  <1> QED BY <1>1, <1>5, <1>6, Zenon DEF StateGood

\* One peer is written.
LEMMA WriteKeeps ==
    ASSUME SniInv, SnCounting, sn_max_tracked_conns \in Nat, NEW p \in SnPeers,
           NEW t, PeerInv(p, t), t.conn.live => sn_conn[p].live,
           SnCommit([SnCur EXCEPT ![p] = t])
    PROVE  SniInv'
  <1>1. PICK at : at = [SnCur EXCEPT ![p] = t]
    OBVIOUS
  <1>2. StateGood(at)
    BY <1>1, WriteGood, Zenon
  <1> QED BY <1>1, <1>2, CommitKeeps, Zenon

\* A new entry finds room.
LEMMA CreateGood ==
    ASSUME SniInv, SnCounting, sn_max_tracked_conns \in Nat, NEW p \in SnPeers,
           NEW at, \A q \in SnPeers : q # p => PeerInv(q, at[q]), Entries(at) \in SUBSET Entries(SnCur),
           Cardinality(Entries(at)) < sn_max_tracked_conns,
           NEW t, PeerInv(p, t),
           NEW new, \A q \in SnPeers : new[q] = IF q = p THEN t ELSE at[q]
    PROVE  StateGood(new)
  <1>1. /\ Entries(at) \in SUBSET SnPeers
        /\ Entries(at) \union {p} \in SUBSET SnPeers
        /\ Entries(new) \in SUBSET (Entries(at) \union {p})
        /\ Entries(new) \in SUBSET SnPeers
    BY Zenon DEF Entries
  <1>2. /\ Cardinality(Entries(at)) \in Nat /\ Cardinality(Entries(new)) \in Nat
        /\ Cardinality(Entries(at) \union {p}) \in Nat
        /\ Cardinality(Entries(at) \union {p}) <= Cardinality(Entries(at)) + 1
        /\ Cardinality(Entries(new)) <= Cardinality(Entries(at) \union {p})
    BY <1>1, Zenon DEF SnCounting
  <1>3. Cardinality(Entries(new)) <= sn_max_tracked_conns
    BY <1>2
  <1> QED BY <1>3, Zenon DEF StateGood

\* The entry of o makes room for what p gets.
Evicted(new, at, o, p, t) ==
    \A q \in SnPeers :
        new[q] = IF q = p THEN t ELSE IF q = o THEN Lost(GiveUp(at[o])) ELSE at[q]

\* Or the oldest one makes room.
LEMMA EvictGood ==
    ASSUME SniInv, SnCounting, sn_max_tracked_conns \in Nat, NEW p \in SnPeers,
           sn_case.pp \in BOOLEAN,
           NEW at, \A q \in SnPeers : q # p => PeerInv(q, at[q]), Entries(at) \in SUBSET Entries(SnCur),
           NEW o \in Entries(at), o # p,
           NEW t, PeerInv(p, t),
           NEW new, Evicted(new, at, o, p, t)
    PROVE  StateGood(new)
  <1>1. PICK v : v = Lost(GiveUp(at[o]))
    OBVIOUS
  <1>2. o \in SnPeers /\ at[o].conn.live
    BY Zenon DEF Entries
  <1>3. PeerInv(o, v) /\ ~v.conn.live
    BY <1>1, <1>2, EvictedKeeps, Zenon
  <1>4. \A q \in SnPeers : new[q] = IF q = p THEN t ELSE IF q = o THEN v ELSE at[q]
    BY <1>1, Zenon DEF Evicted
  <1>5. /\ Entries(at) \in SUBSET SnPeers /\ Entries(SnCur) \in SUBSET SnPeers
        /\ Entries(at) \ {o} \in SUBSET SnPeers
        /\ (Entries(at) \ {o}) \union {p} \in SUBSET SnPeers
        /\ Entries(new) \in SUBSET SnPeers
    BY Zenon DEF Entries
  <1>6. Entries(new) \in SUBSET ((Entries(at) \ {o}) \union {p})
    <2>1. ASSUME NEW q \in Entries(new)
          PROVE  q \in (Entries(at) \ {o}) \union {p}
      <3>1. q \in SnPeers /\ new[q].conn.live
        BY Zenon DEF Entries
      <3>2. CASE q = p
        BY <3>2
      <3>3. CASE q # p
        <4>1. q # o
          BY <1>2, <1>3, <1>4, <3>1, <3>3, Zenon
        <4>2. new[q] = at[q]
          BY <1>4, <3>1, <3>3, <4>1, Zenon
        <4> QED BY <3>1, <4>1, <4>2, Zenon DEF Entries
      <3> QED BY <3>2, <3>3
    <2> QED BY <2>1, Zenon
  <1>7. /\ Cardinality(Entries(at)) \in Nat /\ Cardinality(Entries(new)) \in Nat
        /\ Cardinality(Entries(at)) <= Cardinality(Entries(SnCur))
        /\ Cardinality(Entries(SnCur)) \in Nat
        /\ Cardinality(Entries(SnCur)) <= sn_max_tracked_conns
    BY <1>5, CurGood, Zenon DEF SnCounting, StateGood
  <1>8. /\ Cardinality(Entries(at) \ {o}) = Cardinality(Entries(at)) - 1
        /\ Cardinality((Entries(at) \ {o}) \union {p}) <= Cardinality(Entries(at) \ {o}) + 1
        /\ Cardinality((Entries(at) \ {o}) \union {p}) \in Nat
        /\ Cardinality(Entries(at) \ {o}) \in Nat
    BY <1>5, Zenon DEF SnCounting
  <1>9. Cardinality(Entries(new)) <= Cardinality((Entries(at) \ {o}) \union {p})
    BY <1>5, <1>6, Zenon DEF SnCounting
  <1>10. Cardinality(Entries(new)) <= sn_max_tracked_conns
    BY <1>7, <1>8, <1>9
  <1>11. \A q \in SnPeers : PeerInv(q, new[q])
    BY <1>3, <1>4, Zenon
  <1> QED BY <1>10, <1>11, Zenon DEF StateGood

Sending(p, type, frags) ==
    [n |-> sn_client[p].sent + 1, conn |-> sn_client[p].conns,
     dcid |-> <<sn_client[p].conns, sn_client[p].dcid>>,
     opens |-> sn_client[p].dcid = sn_client[p].key, type |-> type, frags |-> frags]

\* What a client may send.
LEMMA OfferedIs ==
    ASSUME SniInv, NEW p \in SnPeers, NEW type \in {"initial", "other"}, NEW frags \in SUBSET SnFragments,
           type = "other" => sn_client[p].started,
           NEW d, d = Sending(p, type, frags)
    PROVE  Offered(Peer(p), d)
  <1>1. Peer(p) \in PeerState /\ Peer(p).client = sn_client[p]
    BY CurGood, PeerFields, Zenon DEF PeerInv, Placed
  <1>2. /\ sn_client[p].conns \in Nat /\ sn_client[p].sent \in Nat
        /\ sn_client[p].dcid \in Ids /\ sn_client[p].key \in Ids
    BY <1>1, PeerTypes, Zenon
  <1>3. PICK b \in BOOLEAN : b = (sn_client[p].dcid = sn_client[p].key)
    BY Zenon
  <1>4. PICK i \in Nat \X Ids : i = <<sn_client[p].conns, sn_client[p].dcid>>
    BY <1>2, Zenon
  <1>5. PICK m \in Nat : m = sn_client[p].sent + 1
    BY <1>2
  <1>6. PICK k \in Nat : k = sn_client[p].conns
    BY <1>2
  <1>7. d = [n |-> m, conn |-> k, dcid |-> i, opens |-> b, type |-> type, frags |-> frags]
    BY <1>3, <1>4, <1>5, <1>6, Zenon DEF Sending
  <1>8. /\ d \in Dgram /\ d.n = m /\ d.conn = k /\ d.dcid = i /\ d.opens = b /\ d.type = type
    BY <1>7 DEF Dgram
  <1>9. sn_client[p].started \/ type = "initial"
    OBVIOUS
  <1> QED BY <1>1, <1>3, <1>4, <1>5, <1>6, <1>8, <1>9, Zenon DEF Offered

\* A datagram of the client at p.
LEMMA ProcessKeeps ==
    ASSUME SniInv, SnCounting, sn_max_tracked_conns \in Nat, NEW p \in SnPeers,
           sn_case.pp \in BOOLEAN,
           NEW d, Offered(Peer(p), d), sni_router_process(p, d)
    PROVE  SniInv'
  <1>1. PICK s : s = IF StartsAnew(sn_conn[p], d) THEN GiveUp(Peer(p)) ELSE Peer(p)
    OBVIOUS
  <1>2. /\ PeerInv(p, Peer(p)) /\ Peer(p).conn = sn_conn[p] /\ sn_now \in Nat /\ d \in Dgram
    BY CurGood, PeerFields, Zenon DEF Offered
  <1>3. ReadyFor(p, s, d) /\ (s.conn.live => s.conn = sn_conn[p] /\ sn_conn[p].live)
    BY <1>1, <1>2, Readied, Zenon
  <1>4. Placed(s) /\ Offered(s, d) /\ s \in PeerState
    BY <1>3, Zenon DEF ReadyFor, Placed
  <1>5. PICK at : at = [SnCur EXCEPT ![p] = s]
    BY Zenon
  <1>6. PICK new : new = HoldAndDecide(connection_create(s, d), p, d)
    OBVIOUS
  <1>7. ASSUME NEW t
        PROVE  [at EXCEPT ![p] = t] = [SnCur EXCEPT ![p] = t]
    BY <1>5, Zenon DEF SnCur
  <1>8. ASSUME NEW r, Arrived(p, r), r.conn.live => sn_conn[p].live,
               SnCommit([at EXCEPT ![p] = Counted(r, d)])
        PROVE  SniInv'
    <2>1. PICK t : t = Counted(r, d)
      OBVIOUS
    <2>2. PeerInv(p, t) /\ t.conn = r.conn
      BY <1>2, <1>8, <2>1, CountedKeeps, Zenon
    <2>3. SnCommit([SnCur EXCEPT ![p] = t])
      BY <1>7, <1>8, <2>1, Zenon
    <2>4. t.conn.live => sn_conn[p].live
      BY <1>8, <2>2, Zenon
    <2> QED BY <2>2, <2>3, <2>4, WriteKeeps, Zenon
  <1>9. CASE s.conn.live /\ sn_conn[p].decision = "ACCEPT"
    <2>1. PICK r : r = accept_packet(SeenAt(s, sn_now), <<d>>)
      OBVIOUS
    <2>2. SnCommit([at EXCEPT ![p] = Counted(r, d)])
      BY <1>1, <1>5, <1>9, <2>1, Zenon DEF sni_router_process, SeenAt
    <2>3. Arrived(p, r)
      BY <1>2, <1>3, <1>9, <2>1, AcceptArrives, Zenon
    <2> QED BY <1>3, <1>8, <1>9, <2>2, <2>3, Zenon
  <1>10. CASE s.conn.live /\ sn_conn[p].decision = "FALLBACK"
    <2>1. PICK r : r = fallback_send(SeenAt(s, sn_now), <<d>>)
      OBVIOUS
    <2>2. SnCommit([at EXCEPT ![p] = Counted(r, d)])
      BY <1>1, <1>5, <1>10, <2>1, Zenon DEF sni_router_process, SeenAt
    <2>3. Arrived(p, r)
      BY <1>2, <1>3, <1>10, <2>1, FallbackArrives, Zenon
    <2> QED BY <1>3, <1>8, <1>10, <2>2, <2>3, Zenon
  <1>11. CASE s.conn.live /\ sn_conn[p].decision = "PENDING" /\ d.type # "initial"
    <2>1. PICK u : u = Lost(s)
      OBVIOUS
    <2>2. PICK r : r = accept_pending_and_current(u, d, FALSE)
      BY Zenon
    <2>3. SnCommit([at EXCEPT ![p] = Counted(r, d)])
      BY <1>1, <1>5, <1>11, <2>1, <2>2, Zenon DEF sni_router_process, parse_initial_header
    <2>4. Placed(u) /\ Offered(u, d) /\ u.client.lost /\ u \in Tracked
      BY <1>4, <1>11, <2>1, LostOffered, LiveOrNot, Zenon
    <2>5. Arrived(p, r)
      BY <2>2, <2>4, AcceptAllArrives, Zenon
    <2> QED BY <1>3, <1>8, <1>11, <2>3, <2>5, Zenon
  <1>12. CASE s.conn.live /\ sn_conn[p].decision = "PENDING" /\ d.type = "initial"
    <2>1. PICK r : r = HoldAndDecide(s, p, d)
      OBVIOUS
    <2>2. SnCommit([at EXCEPT ![p] = Counted(r, d)])
      BY <1>1, <1>5, <1>12, <2>1 DEF sni_router_process, parse_initial_header
    <2>3. Holding(p, s, d)
      BY <1>3, <1>12, PendingHolds, Zenon
    <2>4. Arrived(p, r)
      BY <1>2, <2>1, <2>3, HoldArrives, Zenon
    <2> QED BY <1>3, <1>8, <1>12, <2>2, <2>4, Zenon
  <1>13. CASE ~s.conn.live /\ d.type # "initial"
    <2>1. PICK u : u = Lost(s)
      OBVIOUS
    <2>2. PICK r : r = accept_packet(u, <<d>>)
      OBVIOUS
    <2>3. SnCommit([at EXCEPT ![p] = Counted(r, d)])
      BY <1>1, <1>5, <1>13, <2>1, <2>2, Zenon DEF sni_router_process, parse_initial_header
    <2>4. Placed(u) /\ Offered(u, d) /\ u.client.lost /\ ~u.conn.live
      BY <1>4, <1>13, <2>1, LostOffered, Zenon
    <2>5. Arrived(p, r)
      BY <2>2, <2>4, LostArrives, Zenon
    <2>6. r.conn = u.conn
      <3>1. HeldBy(u.conn) = <<>>
        BY <2>4, Zenon DEF HeldBy
      <3> QED BY <2>2, <2>4, <3>1, AcceptOne, Zenon
    <2> QED BY <1>8, <2>3, <2>4, <2>5, <2>6, Zenon
  <1>14. CASE ~s.conn.live /\ d.type = "initial"
    <2>1. PICK c : c = connection_create(s, d)
      OBVIOUS
    <2>2. Holding(p, c, d)
      BY <1>2, <1>3, <1>14, <2>1, CreatedHolds, Zenon
    <2>3. Arrived(p, new)
      <3>1. new = HoldAndDecide(c, p, d)
        BY <1>6, <2>1, Zenon
      <3> QED BY <1>2, <2>2, <3>1, HoldArrives, Zenon
    <2>4. PICK t : t = Counted(new, d)
      OBVIOUS
    <2>5. PeerInv(p, t)
      BY <1>2, <2>3, <2>4, CountedKeeps, Zenon
    <2>6. \A q \in SnPeers : at[q] = IF q = p THEN s ELSE SnCur[q]
      BY <1>5, Zenon DEF SnCur
    <2>7. Entries(at) \in SUBSET Entries(SnCur)
      BY <1>14, <2>6, Zenon DEF Entries
    <2>8. \A q \in SnPeers : q # p => PeerInv(q, at[q])
      BY <2>6, CurGood, Zenon
    <2>9. PICK x : x = [at EXCEPT ![p] = t]
      BY Zenon
    <2>10. CASE Cardinality(Entries(at)) < sn_max_tracked_conns
      <3>1. SnCommit(x)
        BY <1>1, <1>5, <1>6, <1>14, <2>4, <2>9, <2>10, Zenon DEF sni_router_process, parse_initial_header
      <3>2. \A q \in SnPeers : x[q] = IF q = p THEN t ELSE at[q]
        BY <1>5, <2>9, Zenon DEF SnCur
      <3>3. StateGood(x)
        BY <2>5, <2>7, <2>8, <2>10, <3>2, CreateGood, Zenon
      <3> QED BY <3>1, <3>3, CommitKeeps, Zenon
    <2>11. CASE ~(Cardinality(Entries(at)) < sn_max_tracked_conns)
      <3>1. PICK o \in Oldest(at) : SnCommit([at EXCEPT ![o] = evict_oldest(@), ![p] = t])
        BY <1>1, <1>5, <1>6, <1>14, <2>4, <2>11, Zenon DEF sni_router_process, parse_initial_header
      <3>2. o \in Entries(at) /\ o # p
        BY <1>14, <2>6, <3>1, Zenon DEF Oldest, Entries
      <3>3. PICK y : y = [at EXCEPT ![o] = evict_oldest(@), ![p] = t]
        BY Zenon
      <3>4. Evicted(y, at, o, p, t)
        BY <1>5, <3>3 DEF Evicted, evict_oldest, SnCur
      <3>5. StateGood(y)
        BY <2>5, <2>7, <2>8, <3>2, <3>4, EvictGood, Zenon
      <3> QED BY <3>1, <3>3, <3>5, CommitKeeps, Zenon
    <2> QED BY <2>10, <2>11, Zenon
  <1>15. s.conn.live => sn_conn[p].decision \in {"ACCEPT", "FALLBACK", "PENDING"}
    <2>1. s.conn.live => s.conn.decision \in Decisions
      BY <1>4, LiveOrNot, TrackedTypes, Zenon
    <2> QED BY <1>3, <2>1 DEF Decisions
  <1> QED BY <1>9, <1>10, <1>11, <1>12, <1>13, <1>14, <1>15, Zenon

\* The client at p sends.
LEMMA SendsKeeps ==
    ASSUME SniInv, SnCounting, sn_max_tracked_conns \in Nat, NEW p \in SnPeers,
           sn_case.pp \in BOOLEAN, ClientSends(p)
    PROVE  SniInv'
  <1>1. \/ \E frags \in SUBSET SnFragments : sni_router_process(p, Sending(p, "initial", frags))
        \/ sn_client[p].started /\ sni_router_process(p, Sending(p, "other", {}))
    BY Zenon DEF ClientSends, Sending
  <1>2. ASSUME NEW frags \in SUBSET SnFragments, sni_router_process(p, Sending(p, "initial", frags))
        PROVE  SniInv'
    <2>1. PICK d : d = Sending(p, "initial", frags)
      OBVIOUS
    <2>2. "initial" \in {"initial", "other"} /\ ("initial" = "other" => sn_client[p].started)
      OBVIOUS
    <2>3. Offered(Peer(p), d)
      BY <2>1, <2>2, OfferedIs, Zenon
    <2> QED BY <1>2, <2>1, <2>3, ProcessKeeps, Zenon
  <1>3. ASSUME sn_client[p].started, sni_router_process(p, Sending(p, "other", {}))
        PROVE  SniInv'
    <2>1. PICK d : d = Sending(p, "other", {})
      OBVIOUS
    <2>2. "other" \in {"initial", "other"} /\ {} \in SUBSET SnFragments
      OBVIOUS
    <2>3. Offered(Peer(p), d)
      BY <1>3, <2>1, <2>2, OfferedIs, Zenon
    <2> QED BY <1>3, <2>1, <2>3, ProcessKeeps, Zenon
  <1> QED BY <1>1, <1>2, <1>3, Zenon

\* The client at p opens a new connection.
LEMMA ReopensKeeps ==
    ASSUME SniInv, SnCounting, sn_max_tracked_conns \in Nat, NEW p \in SnPeers, ClientReopens(p)
    PROVE  SniInv'
  <1>1. PICK s : s = Peer(p)
    OBVIOUS
  <1>2. /\ PeerInv(p, s) /\ Placed(s) /\ s \in PeerState /\ s.conn = sn_conn[p]
        /\ s.client = sn_client[p] /\ s.client.conns \in Nat /\ s.client.sent \in Nat
        /\ \A o \in Members(s.out) : o.conn \in Nat
    BY <1>1, CurGood, PeerFields, PeerTypes, Zenon DEF PeerInv, Placed
  <1>3. PICK k \in Nat : k = s.client.conns + 1
    BY <1>2
  <1>4. PICK n \in Nat : n = s.client.sent
    BY <1>2
  <1>5. PICK c : c = NewClient(k)
    OBVIOUS
  <1>51. /\ c \in QuicClient /\ c.conns = k /\ c.key = "orig" /\ c.dcid = "orig"
         /\ c.started = FALSE
    BY <1>5 DEF NewClient, QuicClient, Ids
  <1>52. PICK cl : cl = [c EXCEPT !.sent = n]
    BY Zenon
  <1>6. /\ cl \in QuicClient /\ cl.conns = k /\ cl.key = "orig" /\ cl.dcid = "orig" /\ cl.sent = n
        /\ cl.started = FALSE
    BY <1>51, <1>52 DEF QuicClient
  <1>7. PICK t : t = PutClient(s, cl)
    OBVIOUS
  <1>8. t \in PeerState /\ t.conn = s.conn /\ t.out = s.out /\ t.client = cl
    BY <1>2, <1>6, <1>7, ClientWritten, Zenon
  <1>9. SnCommit([SnCur EXCEPT ![p] = t])
    <2>1. SnCommit([SnCur EXCEPT ![p].client =
                      [NewClient(@.conns + 1) EXCEPT !.sent = sn_client[p].sent]])
      BY Zenon DEF ClientReopens
    <2>2. SnCur[p] = s
      BY <1>1, Zenon DEF SnCur
    <2>3. [NewClient(s.client.conns + 1) EXCEPT !.sent = sn_client[p].sent] = cl
      BY <1>2, <1>3, <1>4, <1>5, <1>52, Zenon
    <2>4. [SnCur EXCEPT ![p].client = [NewClient(@.conns + 1) EXCEPT !.sent = sn_client[p].sent]]
            = [SnCur EXCEPT ![p] = [SnCur[p] EXCEPT
                  !.client = [NewClient(SnCur[p].client.conns + 1) EXCEPT !.sent = sn_client[p].sent]]]
      OBVIOUS
    <2> QED BY <1>7, <2>1, <2>2, <2>3, <2>4, Zenon DEF PutClient
  <1>10. PeerInv(p, t)
    <2>1. /\ \A o \in Members(s.out) : o.conn <= s.client.conns
          /\ s.conn.live => EntryGood(s.conn) /\ s.conn.initial_dcid[1] <= s.client.conns
          /\ Numbered(s.out, HeldBy(s.conn), s.client.sent)
      BY <1>2, Zenon DEF Placed
    <2>2. s.conn.live => s.conn.initial_dcid[1] \in Nat
      BY <1>2, LiveOrNot, TrackedTypes, Zenon
    <2>3. \A o \in Members(s.out) : o.conn <= k /\ o.conn # k
      BY <1>2, <1>3, <2>1
    <2>4. s.conn.live => s.conn.initial_dcid[1] < k /\ s.conn.initial_dcid[1] <= k
      BY <1>2, <1>3, <2>1, <2>2
    <2>5. k # 0
      BY <1>2, <1>3
    <2>6. Placed(t)
      BY <1>4, <1>6, <1>8, <2>1, <2>3, <2>4, <2>5, Zenon DEF Placed
    <2>7. Fresh(t)
      BY <1>6, <1>8, <2>3, <2>4, Zenon DEF Fresh, NoneLeft
    <2> QED BY <1>6, <1>8, <2>6, <2>7, Zenon DEF PeerInv
  <1>11. t.conn.live => sn_conn[p].live
    BY <1>2, <1>8, Zenon
  <1> QED BY <1>9, <1>10, <1>11, WriteKeeps, Zenon


\* The socket of the fallback server fails.
LEMMA FailsKeeps ==
    ASSUME SniInv, SnCounting, sn_max_tracked_conns \in Nat, NEW p \in SnPeers,
           FallbackSocketFails(p)
    PROVE  SniInv'
  <1>1. PICK s : s = Peer(p)
    OBVIOUS
  <1>2. /\ PeerInv(p, s) /\ Placed(s) /\ s \in PeerState /\ s.conn = sn_conn[p]
        /\ s.conn.live /\ s.conn.fd
    BY <1>1, CurGood, PeerFields, Zenon DEF PeerInv, Placed, FallbackSocketFails
  <1>3. PICK u : u = connection_remove(s)
    OBVIOUS
  <1>4. /\ u \in PeerState /\ u.conn = NoEntry /\ u.out = s.out /\ u.client = s.client
        /\ ~u.conn.live /\ HeldBy(u.conn) = <<>>
    BY <1>2, <1>3, RemovedIs, Zenon
  <1>5. Placed(u)
    <2>1. s.conn.pending = <<>>
      BY <1>2, Zenon DEF Placed, EntryGood
    <2>2. HeldBy(s.conn) = <<>>
      BY <2>1, Zenon DEF HeldBy
    <2> QED BY <1>2, <1>4, <2>2, Zenon DEF Placed
  <1>6. PICK t : t = Lost(u)
    OBVIOUS
  <1>7. /\ t \in PeerState /\ t.conn = u.conn /\ t.out = u.out /\ t.client.lost = TRUE
        /\ t.client.conns = u.client.conns /\ t.client.started = u.client.started
        /\ t.client.dcid = u.client.dcid /\ t.client.key = u.client.key
    BY <1>4, <1>6, LostIs, Zenon
  <1>8. Placed(t)
    BY <1>5, <1>6, LostPlaced, Zenon
  <1>9. PeerInv(p, t)
    <2>1. ~s.client.started => Fresh(t)
      BY <1>2, <1>4, <1>7, Zenon DEF PeerInv, Fresh
    <2> QED BY <1>4, <1>7, <1>8, <2>1, Zenon DEF PeerInv, Excused
  <1>10. SnCommit([SnCur EXCEPT ![p] = t])
    <2>1. SnCommit([SnCur EXCEPT ![p] = Lost(connection_remove(@))])
      BY Zenon DEF FallbackSocketFails
    <2>2. [SnCur EXCEPT ![p] = Lost(connection_remove(@))]
            = [SnCur EXCEPT ![p] = Lost(connection_remove(SnCur[p]))]
      OBVIOUS
    <2>3. SnCur[p] = s
      BY <1>1, Zenon DEF SnCur
    <2> QED BY <1>3, <1>6, <2>1, <2>2, <2>3, Zenon
  <1>11. ~t.conn.live
    BY <1>4, <1>7, Zenon
  <1> QED BY <1>9, <1>10, <1>11, WriteKeeps, Zenon

\* The engine answers.
LEMMA AnswersKeeps ==
    ASSUME SniInv, SnCounting, sn_max_tracked_conns \in Nat, NEW p \in SnPeers,
           EngineAnswers(p)
    PROVE  SniInv'
  <1>1. PICK s : s = Peer(p)
    OBVIOUS
  <1>2. /\ PeerInv(p, s) /\ Placed(s) /\ s \in PeerState /\ s.conn = sn_conn[p]
        /\ s.client = sn_client[p] /\ s.out = sn_out[p] /\ s.client \in QuicClient
        /\ s.out \in Seq(SentOut)
    BY <1>1, CurGood, PeerFields, PeerTypes, Zenon DEF PeerInv, Placed
  <1>3. PICK cl : cl = [s.client EXCEPT !.server = "answered", !.dcid = "server"]
    OBVIOUS
  <1>4. /\ cl \in QuicClient /\ cl.conns = s.client.conns /\ cl.sent = s.client.sent
        /\ cl.lost = s.client.lost /\ cl.started = s.client.started
    BY <1>2, <1>3, Zenon DEF QuicClient, Ids
  <1>5. PICK t : t = PutClient(s, cl)
    OBVIOUS
  <1>6. t \in PeerState /\ t.conn = s.conn /\ t.out = s.out /\ t.client = cl
    BY <1>2, <1>4, <1>5, ClientWritten, Zenon
  <1>7. Placed(t)
    BY <1>2, <1>4, <1>6, Zenon DEF Placed
  <1>8. PICK o \in Members(s.out) : o.conn = s.client.conns /\ o.to = "engine"
    <2>1. PICK i \in DOMAIN s.out : s.out[i].conn = s.client.conns /\ s.out[i].to = "engine"
      BY <1>2, Zenon DEF EngineAnswers
    <2>2. DOMAIN s.out = 1..Len(s.out)
      BY <1>2
    <2> QED BY <2>1, <2>2, Zenon DEF Members
  <1>9. s.client.started
    BY <1>2, <1>8, Zenon DEF PeerInv, Fresh, NoneLeft
  <1>10. Routed(p, s) => Routed(p, t)
    <2>1. ~Unserved(s)
      BY <1>8, Zenon DEF Unserved, NoneAccepted
    <2>2. Served(s) => Served(t)
      BY <1>4, <1>6, Zenon DEF Served
    <2> QED BY <1>4, <1>6, <2>1, <2>2, Zenon DEF Routed
  <1>11. PeerInv(p, t)
    BY <1>2, <1>4, <1>6, <1>7, <1>9, <1>10, Zenon DEF PeerInv, Excused
  <1>12. SnCommit([SnCur EXCEPT ![p] = t])
    <2>1. SnCommit([SnCur EXCEPT ![p].client.server = "answered", ![p].client.dcid = "server"])
      BY Zenon DEF EngineAnswers
    <2>2. SnCur[p] = s /\ SnCur = [q \in SnPeers |-> SnCur[q]]
      BY <1>1, Zenon DEF SnCur
    <2>3. [SnCur EXCEPT ![p].client.server = "answered", ![p].client.dcid = "server"]
            = [SnCur EXCEPT ![p] = [s EXCEPT !.client.server = "answered", !.client.dcid = "server"]]
      BY <2>2, Zenon
    <2>4. [s EXCEPT !.client.server = "answered", !.client.dcid = "server"] = t
      BY <1>2, <1>3, <1>5, Zenon DEF PutClient, PeerState, QuicClient
    <2> QED BY <2>1, <2>3, <2>4, Zenon
  <1>13. t.conn.live => sn_conn[p].live
    BY <1>2, <1>6, Zenon
  <1> QED BY <1>11, <1>12, <1>13, WriteKeeps, Zenon

\* Old entries are given up.
LEMMA CleanupKeeps ==
    ASSUME SniInv, SnCounting, sn_max_tracked_conns \in Nat, sn_case.pp \in BOOLEAN,
           sni_router_cleanup
    PROVE  SniInv'
  <1>1. PICK old \in SUBSET Entries(SnCur) :
          SnCommit([p \in SnPeers |-> IF p \in old THEN Lost(GiveUp(Peer(p))) ELSE Peer(p)])
    BY Zenon DEF sni_router_cleanup
  <1>2. PICK at : at = [p \in SnPeers |-> IF p \in old THEN Lost(GiveUp(Peer(p))) ELSE Peer(p)]
    BY Zenon
  <1>3. ASSUME NEW p \in SnPeers
        PROVE  PeerInv(p, at[p]) /\ (at[p].conn.live => SnCur[p].conn.live)
    <2>1. PeerInv(p, Peer(p)) /\ SnCur[p] = Peer(p)
      BY CurGood, Zenon
    <2>2. CASE p \in old
      <3>1. Peer(p).conn.live
        BY <1>1, <2>1, <2>2, Zenon DEF Entries
      <3>2. PICK t : t = Lost(GiveUp(Peer(p)))
        OBVIOUS
      <3>3. PeerInv(p, t) /\ ~t.conn.live
        BY <2>1, <3>1, <3>2, EvictedKeeps, Zenon
      <3> QED BY <1>2, <2>2, <3>2, <3>3, Zenon
    <2>3. CASE p \notin old
      BY <1>2, <2>1, <2>3, Zenon
    <2> QED BY <2>2, <2>3, Zenon
  <1>4. Entries(at) \in SUBSET Entries(SnCur) /\ Entries(SnCur) \in SUBSET SnPeers
        /\ Entries(at) \in SUBSET SnPeers
    BY <1>3, Zenon DEF Entries
  <1>5. /\ Cardinality(Entries(at)) <= Cardinality(Entries(SnCur))
        /\ Cardinality(Entries(SnCur)) \in Nat /\ Cardinality(Entries(at)) \in Nat
        /\ Cardinality(Entries(SnCur)) <= sn_max_tracked_conns
    BY <1>4, CurGood, Zenon DEF SnCounting, StateGood
  <1>6. Cardinality(Entries(at)) <= sn_max_tracked_conns
    BY <1>5
  <1>7. StateGood(at)
    BY <1>3, <1>6, Zenon DEF StateGood
  <1> QED BY <1>1, <1>2, <1>7, CommitKeeps, Zenon

\* The fallback server answers, and the answer may or may not reach the client.
LEMMA ReadableKeeps ==
    ASSUME SniInv, SnCounting, sn_max_tracked_conns \in Nat, NEW p \in SnPeers,
           sn_case.ids \in {"same", "noretry", "fresh"},
           NEW reply \in {"retry", "initial"}, NEW arrives \in BOOLEAN,
           sni_router_on_fd_readable(p, reply, arrives)
    PROVE  SniInv'
  <1> DEFINE cl == sn_client[p]
             scid == IF reply = "retry" \/ (cl.server = "tokened" /\ sn_case.ids = "same")
                     THEN "retry" ELSE "server"
             key == IF reply = "retry" THEN scid ELSE cl.key
             server == IF reply = "retry" THEN "retried" ELSE "answered"
  <1>1. PICK s : s = Peer(p)
    OBVIOUS
  <1>2. /\ PeerInv(p, s) /\ Placed(s) /\ s \in PeerState /\ s.conn = sn_conn[p]
        /\ s.client = cl /\ s.client \in QuicClient /\ cl.conns \in Nat /\ cl.key \in Ids
        /\ sn_now \in Nat
    BY <1>1, CurGood, PeerFields, PeerTypes, Zenon DEF PeerInv, Placed
  <1>3. /\ s.conn.live /\ s.conn.fd /\ s.conn.initial_dcid[1] = cl.conns
        /\ IF reply = "retry" THEN cl.server = "quiet" /\ sn_case.ids # "noretry"
           ELSE cl.server = (IF sn_case.ids = "noretry" THEN "quiet" ELSE "tokened")
    BY <1>2, Zenon DEF sni_router_on_fd_readable
  <1>4. (sn_case.ids # "fresh" => scid = ServerId) /\ scid \in Ids /\ key \in Ids
    BY <1>2, <1>3 DEF ServerId, Ids
  <1>5. PICK y : y = IF s.conn.server_scid = NoId /\ (reply = "initial" \/ validate_retry(s.conn, cl))
                     THEN <<cl.conns, scid>> ELSE s.conn.server_scid
    BY Zenon
  <1>6. PICK e : e = [s.conn EXCEPT !.last_seen = sn_now, !.server_scid = y]
    OBVIOUS
  <1>7. s \in Tracked /\ s.conn \in Entry /\ EntryGood(s.conn)
    BY <1>2, <1>3, LiveOrNot, Zenon DEF Tracked, Placed
  <1>8. y \in Nat \X Ids /\ y[1] <= s.conn.initial_dcid[1]
    <2>1. s.conn.server_scid \in Nat \X Ids
      BY <1>7, Zenon DEF Entry
    <2>2. s.conn.server_scid[1] <= s.conn.initial_dcid[1]
      BY <1>7, Zenon DEF EntryGood
    <2> HIDE DEF scid
    <2>3. CASE y = <<cl.conns, scid>>
      BY <1>2, <1>3, <1>4, <2>3
    <2>4. CASE y = s.conn.server_scid
      BY <2>1, <2>2, <2>4
    <2> QED BY <1>5, <2>3, <2>4, Zenon
  <1>9. /\ e \in Entry /\ e.initial_dcid = s.conn.initial_dcid /\ e.server_scid = y
        /\ e.pending = s.conn.pending /\ e.decision = s.conn.decision /\ e.fd = s.conn.fd
        /\ e.proxy_sent = s.conn.proxy_sent
    BY <1>2, <1>6, <1>7, <1>8, Zenon DEF Entry
  <1>10. PICK l : l = PutConn(s, e)
    OBVIOUS
  <1>11. l \in Tracked /\ l.conn = e /\ l.out = s.out /\ l.client = s.client
    BY <1>2, <1>9, <1>10, ConnWritten, Zenon
  <1>12. PICK c : c = [s.client EXCEPT !.dcid = scid, !.key = key, !.server = server]
    OBVIOUS
  <1>13. /\ c \in QuicClient /\ c.conns = s.client.conns /\ c.sent = s.client.sent
         /\ c.lost = s.client.lost /\ c.started = s.client.started /\ c.dcid = scid
    <2>1. server \in {"quiet", "retried", "tokened", "answered"}
      OBVIOUS
    <2> HIDE DEF scid, key, server
    <2> QED BY <1>2, <1>4, <1>12, <2>1, Zenon DEF QuicClient
  <1>14. PICK u : u = PutClient(l, c)
    OBVIOUS
  <1>15. /\ u \in PeerState /\ u.conn = e /\ u.out = s.out /\ u.client = c /\ l \in PeerState
         /\ l.conn.live
    BY <1>11, <1>13, <1>14, ClientWritten, TrackedTypes, Zenon
  <1>16. EntryGood(e) /\ e.live /\ HeldBy(e) = HeldBy(s.conn)
    <2>1. EntryGood(e)
      BY <1>7, <1>8, <1>9, Zenon DEF EntryGood
    <2>2. e.live
      BY <1>11, <1>15, Zenon
    <2> QED BY <1>3, <1>9, <2>1, <2>2, Zenon DEF HeldBy
  <1>17. Placed(l) /\ Placed(u)
    BY <1>2, <1>3, <1>9, <1>11, <1>13, <1>15, <1>16, Zenon DEF Placed
  <1>18. s.client.started
    <2>1. CASE ~s.client.started
      <3>1. cl.conns < cl.conns
        BY <1>2, <1>3, <2>1, Zenon DEF PeerInv, Fresh
      <3> QED BY <1>2, <3>1
    <2> QED BY <2>1, Zenon
  <1>19. ASSUME sn_case.ids # "fresh", Routed(p, s)
         PROVE  Routed(p, l) /\ Routed(p, u)
    <2>1. Served(s) => Served(l) /\ Served(u)
      BY <1>9, <1>11, <1>13, <1>15, Zenon DEF Served
    <2>2. ASSUME Unserved(s)
          PROVE  Unserved(l) /\ Unserved(u)
      <3>1. /\ s.conn.initial_dcid = <<cl.conns, "orig">>
            /\ s.conn.server_scid \in {NoId, <<cl.conns, ServerId>>}
            /\ \/ s.client.dcid = "orig"
               \/ s.client.dcid = ServerId /\ s.conn.server_scid = <<cl.conns, ServerId>>
        BY <1>2, <2>2, Zenon DEF Unserved, IdsKnown
      <3> HIDE DEF scid
      <3>2. y = <<cl.conns, ServerId>>
        BY <1>4, <1>5, <1>19, <3>1, Zenon DEF validate_retry
      <3> HIDE DEF cl
      <3>3. IdsKnown(l) /\ IdsKnown(u)
        <4>1. /\ l.conn.initial_dcid = <<l.client.conns, "orig">>
              /\ l.conn.server_scid = <<l.client.conns, ServerId>>
              /\ l.client.dcid = "orig" \/ l.client.dcid = ServerId
          BY <1>2, <1>9, <1>11, <3>1, <3>2, Zenon
        <4>2. /\ u.conn.initial_dcid = <<u.client.conns, "orig">>
              /\ u.conn.server_scid = <<u.client.conns, ServerId>>
              /\ u.client.dcid = ServerId
          BY <1>2, <1>4, <1>9, <1>13, <1>15, <1>19, <3>1, <3>2, Zenon
        <4> QED BY <4>1, <4>2, Zenon DEF IdsKnown
      <3>4. e.decision # "PENDING"
        BY <1>3, <1>9, <1>16, Zenon DEF EntryGood
      <3> QED BY <1>9, <1>11, <1>13, <1>15, <2>2, <3>3, <3>4, Zenon DEF Unserved
    <2> QED BY <1>9, <1>11, <1>13, <1>15, <1>16, <1>19, <2>1, <2>2, Zenon DEF Routed
  <1>20. PeerInv(p, l) /\ PeerInv(p, u)
    BY <1>2, <1>11, <1>13, <1>15, <1>17, <1>18, <1>19, Zenon DEF PeerInv, Excused
  <1>21. PICK t : t = IF arrives THEN u ELSE l
    OBVIOUS
  <1>22. SnCommit([SnCur EXCEPT ![p] = t])
    <2>1. l = [Peer(p) EXCEPT !.conn.last_seen = sn_now, !.conn.server_scid =
                 IF @ = NoId /\ (reply = "initial" \/ validate_retry(sn_conn[p], cl))
                 THEN <<cl.conns, scid>> ELSE @]
      <3>1. [Peer(p) EXCEPT !.conn.last_seen = sn_now, !.conn.server_scid =
               IF @ = NoId /\ (reply = "initial" \/ validate_retry(sn_conn[p], cl))
               THEN <<cl.conns, scid>> ELSE @]
              = [Peer(p) EXCEPT !.conn.last_seen = sn_now, !.conn.server_scid =
                   IF Peer(p).conn.server_scid = NoId
                        /\ (reply = "initial" \/ validate_retry(sn_conn[p], cl))
                   THEN <<cl.conns, scid>> ELSE Peer(p).conn.server_scid]
        BY <1>1, <1>2, <1>7 DEF PeerState, Entry
      <3>2. [Peer(p) EXCEPT !.conn.last_seen = sn_now, !.conn.server_scid =
               IF Peer(p).conn.server_scid = NoId
                    /\ (reply = "initial" \/ validate_retry(sn_conn[p], cl))
               THEN <<cl.conns, scid>> ELSE Peer(p).conn.server_scid]
              = [s EXCEPT !.conn.last_seen = sn_now, !.conn.server_scid = y]
        BY <1>1, <1>2, <1>5, Zenon
      <3>3. [s EXCEPT !.conn.last_seen = sn_now, !.conn.server_scid = y] = l
        BY <1>2, <1>6, <1>7, <1>10, Zenon DEF PeerState, Entry, PutConn
      <3> QED BY <3>1, <3>2, <3>3, Zenon
    <2>2. u = [l EXCEPT !.client.dcid = scid,
                        !.client.key = IF reply = "retry" THEN scid ELSE @,
                        !.client.server = server]
      <3>1. [l EXCEPT !.client.dcid = scid,
                      !.client.key = IF reply = "retry" THEN scid ELSE @,
                      !.client.server = server]
              = [l EXCEPT !.client.dcid = scid, !.client.key = key, !.client.server = server]
        BY <1>2, <1>11, <1>15 DEF PeerState, QuicClient
      <3>2. [l EXCEPT !.client.dcid = scid, !.client.key = key, !.client.server = server] = u
        <4> HIDE DEF scid, key, server
        <4> QED BY <1>2, <1>11, <1>12, <1>14, <1>15, Zenon DEF PeerState, QuicClient, PutClient
      <3> QED BY <3>1, <3>2, Zenon
    <2> DEFINE L == [Peer(p) EXCEPT !.conn.last_seen = sn_now, !.conn.server_scid =
                       IF @ = NoId /\ (reply = "initial" \/ validate_retry(sn_conn[p], cl))
                       THEN <<cl.conns, scid>> ELSE @]
               U(x) == [x EXCEPT !.client.dcid = scid,
                                 !.client.key = IF reply = "retry" THEN scid ELSE @,
                                 !.client.server = server]
    <2>3. SnCommit([SnCur EXCEPT ![p] = IF arrives THEN U(L) ELSE L])
      BY Zenon DEF sni_router_on_fd_readable
    <2>4. L = l /\ U(l) = u
      BY <2>1, <2>2, Zenon
    <2> HIDE DEF L, U
    <2>5. (IF arrives THEN U(L) ELSE L) = t
      BY <1>21, <2>4, Zenon
    <2> QED BY <2>3, <2>5, Zenon
  <1>23. PeerInv(p, t)
    BY <1>20, <1>21, Zenon
  <1>24. t.conn.live => sn_conn[p].live
    BY <1>2, <1>3, Zenon
  <1> QED BY <1>22, <1>23, <1>24, WriteKeeps, Zenon

\* The router starts with no entry, and nothing sent.
LEMMA SniInitStep ==
    ASSUME SniInit, Cardinality({}) = 0
    PROVE  SniInv
  <1>1. sn_case \in SnCases /\ sn_now \in Nat
    BY DEF SniInit
  <1>2. ASSUME NEW p \in SnPeers
        PROVE  PeerInv(p, Peer(p)) /\ ~Peer(p).conn.live
    <2>1. PICK c : c = NewClient(1)
      OBVIOUS
    <2>2. /\ c \in QuicClient /\ c.conns = 1 /\ c.sent = 0 /\ c.started = FALSE /\ c.dcid = "orig"
          /\ c.key = "orig"
      BY <2>1 DEF NewClient, QuicClient, Ids
    <2>3. PICK s : s = Peer(p)
      OBVIOUS
    <2>4. s = [conn |-> NoEntry, out |-> <<>>, client |-> c]
      BY <2>1, <2>3, Zenon DEF SniInit, Peer
    <2>5. s \in PeerState /\ s.conn = NoEntry /\ s.out = <<>> /\ s.client = c
      <3>1. <<>> \in Seq(SentOut)
        OBVIOUS
      <3> QED BY <2>2, <2>4, <3>1 DEF PeerState
    <2>6. ~NoEntry.live
      BY DEF NoEntry
    <2>7. Members(<<>>) = {} /\ Numbered(<<>>, <<>>, 0)
      BY DEF Members, Numbered
    <2>8. HeldBy(s.conn) = <<>>
      BY <2>5, <2>6, Zenon DEF HeldBy
    <2>9. s.client.conns # 0
      BY <2>2, <2>5
    <2>10. Placed(s)
      BY <2>2, <2>5, <2>6, <2>7, <2>8, <2>9, Zenon DEF Placed
    <2>11. Fresh(s)
      BY <2>2, <2>5, <2>6, <2>7, Zenon DEF Fresh, NoneLeft
    <2> QED BY <2>2, <2>3, <2>5, <2>6, <2>10, <2>11, Zenon DEF PeerInv
  <1>3. Entries(SnCur) = {}
    BY <1>2, Zenon DEF Entries, SnCur
  <1>4. Cardinality(Entries(SnCur)) <= sn_max_tracked_conns
    BY <1>3, SniAssumption
  <1>5. /\ sn_conn = [p \in SnPeers |-> sn_conn[p]]
        /\ sn_client = [p \in SnPeers |-> sn_client[p]]
        /\ sn_out = [p \in SnPeers |-> sn_out[p]]
    BY Zenon DEF SniInit
  <1> QED BY <1>1, <1>2, <1>4, <1>5, Zenon DEF SniInv

\* A step that changes the clock alone, or nothing.
LEMMA ClockKeeps ==
    ASSUME SniInv, UNCHANGED <<sn_case, sn_conn, sn_client, sn_out>>, sn_now' \in Nat
    PROVE  SniInv'
  <1>1. /\ sn_case' = sn_case /\ sn_conn' = sn_conn /\ sn_client' = sn_client /\ sn_out' = sn_out
    OBVIOUS
  <1>2. ASSUME NEW p \in SnPeers
        PROVE  PeerInv(p, Peer(p))'
    <2>1. Peer(p)' = Peer(p)
      BY <1>1, Zenon DEF Peer
    <2>2. PeerInv(p, Peer(p))
      BY Zenon DEF SniInv
    <2> QED BY <1>1, <2>1, <2>2, Zenon DEF PeerInv, Excused, Placed, Fresh, Routed, Name, Served,
            Unserved, IdsKnown, ServerId, Undecided, Headed
  <1>3. Entries(SnCur)' = Entries(SnCur)
    BY <1>1, Zenon DEF Entries, SnCur, Peer
  <1> QED BY <1>1, <1>2, <1>3, Zenon DEF SniInv

\* Every step of the router, its clients and its servers keeps the invariant.
LEMMA SniNextStep ==
    ASSUME SniInv, SnCounting, [SniNext]_sn_vars
    PROVE  SniInv'
  <1>1. sn_max_tracked_conns \in Nat /\ sn_case \in SnCases /\ sn_now \in Nat
    BY SniAssumption DEF SniInv
  <1>2. /\ sn_case.pp \in BOOLEAN /\ sn_case.ids \in {"same", "noretry", "fresh"}
        /\ DOMAIN sn_case.sni \subseteq SnPeers
    BY <1>1, SniAssumption, Zenon
  <1>3. ASSUME NEW p \in DOMAIN sn_case.sni, ClientSends(p)
        PROVE  SniInv'
    BY <1>1, <1>2, <1>3, SendsKeeps, Zenon
  <1>4. ASSUME NEW p \in DOMAIN sn_case.sni, ClientReopens(p)
        PROVE  SniInv'
    BY <1>1, <1>2, <1>4, ReopensKeeps, Zenon
  <1>5. ASSUME NEW p \in DOMAIN sn_case.sni, NEW reply \in {"retry", "initial"},
               NEW arrives \in BOOLEAN, sni_router_on_fd_readable(p, reply, arrives)
        PROVE  SniInv'
    BY <1>1, <1>2, <1>5, ReadableKeeps, Zenon
  <1>6. ASSUME NEW p \in DOMAIN sn_case.sni, FallbackSocketFails(p)
        PROVE  SniInv'
    BY <1>1, <1>2, <1>6, FailsKeeps, Zenon
  <1>7. ASSUME NEW p \in DOMAIN sn_case.sni, EngineAnswers(p)
        PROVE  SniInv'
    BY <1>1, <1>2, <1>7, AnswersKeeps, Zenon
  <1>8. CASE sni_router_cleanup
    BY <1>1, <1>2, <1>8, CleanupKeeps, Zenon
  <1>9. CASE SnTimePasses
    <2>1. UNCHANGED <<sn_case, sn_conn, sn_client, sn_out>> /\ sn_now' = sn_now + 1
      BY <1>9, Zenon DEF SnTimePasses
    <2>2. sn_now' \in Nat
      BY <1>1, <2>1
    <2> QED BY <2>1, <2>2, ClockKeeps, Zenon
  <1>10. CASE UNCHANGED sn_vars
    <2>1. UNCHANGED <<sn_case, sn_conn, sn_client, sn_out>> /\ sn_now' = sn_now
      BY <1>10 DEF sn_vars
    <2>2. sn_now' \in Nat
      BY <1>1, <2>1
    <2> QED BY <2>1, <2>2, ClockKeeps, Zenon
  <1> QED BY <1>3, <1>4, <1>5, <1>6, <1>7, <1>8, <1>9, <1>10, Zenon DEF SniNext

-----------------------------------------------------------------------------
(* What the invariant gives.                                               *)

\* The datagrams left and held are those sent, in order.
LEMMA NumberedOnce ==
    ASSUME NEW out \in Seq(SentOut), NEW held \in Seq(Dgram), NEW sent \in Nat,
           Numbered(out, held, sent)
    PROVE  [i \in DOMAIN out |-> out[i].n] \o [i \in DOMAIN held |-> held[i].n]
             = [i \in 1..sent |-> i]
  <1>1. /\ DOMAIN out = 1..Len(out) /\ DOMAIN held = 1..Len(held)
        /\ Len(out) \in Nat /\ Len(held) \in Nat
    OBVIOUS
  <1>2. PICK a, b : /\ a = [i \in 1..Len(out) |-> i]
                    /\ b = [i \in 1..Len(held) |-> Len(out) + i]
    BY Zenon
  <1>3. [i \in DOMAIN out |-> out[i].n] = a /\ [i \in DOMAIN held |-> held[i].n] = b
    BY <1>1, <1>2, Zenon DEF Numbered
  <1>4. /\ a \in Seq(Nat) /\ b \in Seq(Nat) /\ Len(a) = Len(out) /\ Len(b) = Len(held)
        /\ \A i \in 1..Len(a) : a[i] = i
        /\ \A i \in 1..Len(b) : b[i] = Len(a) + i
    BY <1>1, <1>2
  <1>5. sent = Len(a) + Len(b)
    BY <1>4, Zenon DEF Numbered
  <1>6. /\ Len(a) \in Nat /\ Len(b) \in Nat /\ Len(a \o b) = Len(a) + Len(b)
        /\ \A i \in 1..Len(a) : (a \o b)[i] = a[i]
        /\ \A i \in 1..Len(b) : (a \o b)[Len(a) + i] = b[i]
    <2>1. a \in Seq(Nat) /\ b \in Seq(Nat)
      BY <1>4
    <2> QED BY <2>1
  <1>7. ASSUME NEW i \in 1..sent
        PROVE  (a \o b)[i] = i
    <2>1. CASE i \in 1..Len(a)
      BY <1>4, <1>6, <2>1, Zenon
    <2>2. CASE i \notin 1..Len(a)
      <3>1. i - Len(a) \in 1..Len(b) /\ i = Len(a) + (i - Len(a))
        BY <1>5, <1>6, <2>2
      <3>2. PICK j \in 1..Len(b) : i = Len(a) + j
        BY <3>1, Zenon
      <3> QED BY <1>4, <1>6, <3>2, Zenon
    <2> QED BY <2>1, <2>2, Zenon
  <1>8. a \o b = [i \in 1..sent |-> (a \o b)[i]]
    <2>1. a \o b \in Seq(Nat)
      BY <1>4
    <2>2. PICK c \in Seq(Nat) : c = a \o b
      BY <2>1, Zenon
    <2>3. c = [i \in 1..Len(c) |-> c[i]]
      OBVIOUS
    <2> QED BY <1>5, <1>6, <2>2, <2>3, Zenon
  <1>9. a \o b = [i \in 1..sent |-> i]
    BY <1>7, <1>8, Zenon
  <1> QED BY <1>3, <1>9, Zenon

\* The invariant gives delivery.
LEMMA SniInvDelivered ==
    ASSUME SniInv
    PROVE  DeliveredOnce
  <1>1. ASSUME NEW p \in SnPeers
        PROVE  [i \in DOMAIN sn_out[p] |-> sn_out[p][i].n]
                 \o [i \in DOMAIN HeldBy(sn_conn[p]) |-> HeldBy(sn_conn[p])[i].n]
               = [i \in 1..sn_client[p].sent |-> i]
    <2>1. PICK s : s = Peer(p)
      OBVIOUS
    <2>2. /\ s \in PeerState /\ Numbered(s.out, HeldBy(s.conn), s.client.sent)
          /\ s.conn = sn_conn[p] /\ s.out = sn_out[p] /\ s.client = sn_client[p]
      BY <2>1, CurGood, PeerFields, Zenon DEF PeerInv, Placed
    <2>3. s.out \in Seq(SentOut) /\ s.client.sent \in Nat
      BY <2>2, PeerTypes, Zenon
    <2>4. HeldBy(s.conn) \in Seq(Dgram)
      <3>1. CASE s.conn.live
        BY <2>2, <3>1, LiveOrNot, TrackedTypes, Zenon
      <3>2. CASE ~s.conn.live
        <4>1. <<>> \in Seq(Dgram)
          OBVIOUS
        <4> QED BY <3>2, <4>1, Zenon DEF HeldBy
      <3> QED BY <3>1, <3>2, Zenon
    <2>5. [i \in DOMAIN s.out |-> s.out[i].n] \o [i \in DOMAIN HeldBy(s.conn) |-> HeldBy(s.conn)[i].n]
            = [i \in 1..s.client.sent |-> i]
      <3>1. PICK out \in Seq(SentOut), held \in Seq(Dgram), sent \in Nat :
               out = s.out /\ held = HeldBy(s.conn) /\ sent = s.client.sent
        BY <2>3, <2>4, Zenon
      <3>2. Numbered(out, held, sent)
        BY <2>2, <3>1, Zenon
      <3>3. [i \in DOMAIN out |-> out[i].n] \o [i \in DOMAIN held |-> held[i].n] = [i \in 1..sent |-> i]
        BY <3>2, NumberedOnce, Zenon
      <3> QED BY <3>1, <3>3, Zenon
    <2> QED BY <2>2, <2>5, Zenon
  <1>2. Cardinality(Entries(SnCur)) <= sn_max_tracked_conns
    BY Zenon DEF SniInv
  <1> QED BY <1>1, <1>2, Zenon DEF DeliveredOnce, HeldBy

\* The invariant gives the routing of whole connections.
LEMMA SniInvRouted ==
    ASSUME SniInv, sn_case.ids # "fresh"
    PROVE  HeaderFirst /\ RoutedAsOne
  <1>1. ASSUME NEW p \in SnPeers, NEW i \in DOMAIN sn_out[p], ~sn_client[p].lost,
               sn_out[p][i].conn = sn_client[p].conns
        PROVE  /\ sn_out[p][i].to = "engine" <=> sni_router_match(Name(p, sn_client[p].conns))
               /\ sn_out[p][i].to = "fallback" =>
                    /\ i \in 1..Len(sn_out[p])
                    /\ Headed(sn_out[p], sn_client[p].conns, sn_conn[p].proxy_sent)
    <2>1. PICK s : s = Peer(p)
      OBVIOUS
    <2>2. /\ PeerInv(p, s) /\ s \in PeerState
          /\ s.conn = sn_conn[p] /\ s.out = sn_out[p] /\ s.client = sn_client[p]
      BY <2>1, CurGood, PeerFields, Zenon DEF PeerInv, Placed
    <2>3. DOMAIN s.out = 1..Len(s.out)
      BY <2>2 DEF PeerState
    <2>4. PICK o \in Members(s.out) : o = s.out[i]
      BY <1>1, <2>2, <2>3, Zenon DEF Members
    <2>5. o.conn = s.client.conns
      BY <1>1, <2>2, <2>4, Zenon
    <2>6. Routed(p, s)
      BY <1>1, <2>2, <2>5, Zenon DEF PeerInv, Excused, Fresh, NoneLeft
    <2>7. CASE sni_router_match(Name(p, s.client.conns))
      <3>1. o.to = "engine"
        BY <2>5, <2>6, <2>7, Zenon DEF Routed, Served, AllAccepted
      <3>2. o.to # "fallback"
        BY <3>1
      <3> QED BY <2>2, <2>4, <2>7, <3>1, <3>2, Zenon
    <2>8. CASE ~sni_router_match(Name(p, s.client.conns))
      <3>1. o.to # "engine" /\ Headed(s.out, s.client.conns, s.conn.proxy_sent)
        BY <2>5, <2>6, <2>8, Zenon DEF Routed, Unserved, NoneAccepted
      <3> QED BY <1>1, <2>2, <2>3, <2>4, <2>8, <3>1, Zenon
    <2> QED BY <2>7, <2>8, Zenon
  <1>2. RoutedAsOne
    BY <1>1, Zenon DEF RoutedAsOne
  <1>3. ASSUME NEW p \in SnPeers, NEW i \in DOMAIN sn_out[p], ~sn_client[p].lost,
               sn_out[p][i].conn = sn_client[p].conns, sn_out[p][i].to = "fallback"
        PROVE  sn_out[p][i].pp <=>
                 /\ sn_case.pp
                 /\ \A j \in 1..(i - 1) : sn_out[p][j].conn = sn_out[p][i].conn
                                            => sn_out[p][j].to # "fallback"
    <2>1. /\ i \in 1..Len(sn_out[p])
          /\ Headed(sn_out[p], sn_client[p].conns, sn_conn[p].proxy_sent)
      BY <1>1, <1>3, Zenon
    <2>2. sn_out[p][i].pp = (sn_case.pp /\ \A j \in 1..(i - 1) :
                                              ~ToFallback(sn_out[p], sn_client[p].conns, j))
      BY <1>3, <2>1, Zenon DEF Headed, ToFallback
    <2> QED BY <1>3, <2>2, Zenon DEF ToFallback
  <1>4. HeaderFirst
    BY <1>3, Zenon DEF HeaderFirst
  <1> QED BY <1>2, <1>4

-----------------------------------------------------------------------------
(* The theorems.                                                           *)

INSTANCE FiniteSetTheorems

\* Counting the peers works as the steps need it.
LEMMA SnCountingHolds == SnCounting /\ Cardinality({}) = 0
  <1>1. ASSUME NEW S \in SUBSET SnPeers
        PROVE  IsFiniteSet(S) /\ Cardinality(S) \in Nat
    BY SniAssumption, FS_Subset, FS_CardinalityType, Zenon
  <1>2. ASSUME NEW S \in SUBSET SnPeers, NEW T \in SUBSET S
        PROVE  Cardinality(T) <= Cardinality(S)
    BY <1>1, FS_Subset, Zenon
  <1>3. ASSUME NEW S \in SUBSET SnPeers, NEW p \in SnPeers
        PROVE  Cardinality(S \union {p}) <= Cardinality(S) + 1
    <2>1. Cardinality(S \union {p}) = IF p \in S THEN Cardinality(S) ELSE Cardinality(S) + 1
      BY <1>1, FS_AddElement, Zenon
    <2>2. Cardinality(S) \in Nat
      BY <1>1
    <2> QED BY <2>1, <2>2
  <1>4. ASSUME NEW S \in SUBSET SnPeers, NEW p \in S
        PROVE  Cardinality(S \ {p}) = Cardinality(S) - 1
    BY <1>1, FS_RemoveElement, Zenon
  <1> QED BY <1>1, <1>2, <1>3, <1>4, FS_EmptySet, Zenon DEF SnCounting

\* The invariant holds in every reachable state.
LEMMA SniInvariant == SniSpec => []SniInv
  <1>1. SniInit => SniInv
    BY SnCountingHolds, SniInitStep
  <1>2. SniInv /\ [SniNext]_sn_vars => SniInv'
    BY SnCountingHolds, SniNextStep
  <1> QED BY <1>1, <1>2, PTL DEF SniSpec

\* For any number of peers, names and fragments and any size of the table,
\* with or without PROXY headers, whatever the servers answer and whichever
\* sends fail: what the router passed on for a peer (to the engine, to the
\* fallback server or, where a send failed, to nobody) and what its entry holds
\* are the datagrams the peer sent, each once and in order, and the table never
\* holds more than sn_max_tracked_conns entries.
THEOREM RouterDeliversOnce == SniSpec => []DeliveredOnce
  BY SniInvariant, SniInvDelivered, PTL

\* Where the servers keep to the connection ids that the router learns (they
\* answer without a Retry, or with the same id again), a connection whose entry
\* was not taken away is routed as one: to the engine if and only if its server
\* name is the engine's, with the PROXY header on the first datagram that
\* reaches the fallback server and on no other (RouterSound).
THEOREM RouterRoutesSoundly ==
    ASSUME \A c \in SnCases : c.ids # "fresh"
    PROVE  SniSpec => []RouterSound
  <1>1. SniInv => RouterSound
    <2>1. ASSUME SniInv
          PROVE  sn_case.ids # "fresh"
      BY <2>1, Zenon DEF SniInv
    <2> QED BY <2>1, SniInvDelivered, SniInvRouted, Zenon DEF RouterSound
  <1> QED BY <1>1, SniInvariant, PTL
=============================================================================
