---------------------------- MODULE MCReorderRx ----------------------------
(***************************************************************************)
(* ReorderRx for TLC, in two instances that share a run: one flow with     *)
(* packets of two sizes (order, ring growth, timer, demotion), and two     *)
(* flows with room for one, beside a flow that is not reordered (shared    *)
(* pool, LRU and idle eviction, resets).                                   *)
(***************************************************************************)
EXTENDS ReorderRx

CONSTANTS k1, k2, off, W, C

\* The flow `off` has a rule of the class that is never reordered.
MCWait == [k \in Keys |-> IF k = off THEN 0 ELSE W]

MCCap == [k \in Keys |-> C]

VARIABLE instance

TableKeys == {k1, k2, off}

T == INSTANCE ReorderRx WITH
         Keys <- TableKeys,
         Wait <- [k \in TableKeys |-> IF k = off THEN 0 ELSE 1],
         Cap <- [k \in TableKeys |-> 4],
         MaxSeq <- 3, Lens <- {1}, small_packet_threshold_bytes <- 1,
         max_buffer_bytes_per_flow <- 9, global_max_buffer_bytes <- 2, classify_window <- 0,
         ingress_idle_timeout <- 2, max_flows <- 1, MaxAge <- 3

EngineInit ==
    \/ instance = "flow" /\ Init
    \/ instance = "table" /\ T!Init

EngineNext ==
    /\ UNCHANGED instance
    /\ \/ instance = "flow" /\ Next
       \/ instance = "table" /\ T!Next

EngineSpec == EngineInit /\ [][EngineNext]_<<vars, instance>>

\* No packet waits longer than two wait periods in either instance.
ResidenceBounded == IF instance = "flow" THEN BoundedResidence ELSE T!BoundedResidence

\* Rings, timers and what they hold stay consistent in both instances
\* (ring_* and arm_gap_timer of reorder_rx.c), and the shared pool, the
\* cached deadlines and the table's caps keep their books.
EngineSound ==
    IF instance = "flow" THEN RingInvariant /\ TableInvariant
    ELSE T!RingInvariant /\ T!TableInvariant
=============================================================================
