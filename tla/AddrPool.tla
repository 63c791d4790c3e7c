------------------------------ MODULE AddrPool ------------------------------
(***************************************************************************)
(* The server's address pool (src/src/addr_pool.c).  An address is its     *)
(* offset from the base of the subnet; offset 1 is the server's own.  IPv6 *)
(* addresses share the offsets, so a single pool serves both families.     *)
(***************************************************************************)
EXTENDS Integers

CONSTANTS
    \* the size of the used[] bitmap and of the session table
    MQVPN_ADDR_POOL_MAX,
    \* host addresses of the configured subnet, without network and broadcast
    TotalHosts

\* A /30, the longest prefix mqvpn_addr_pool_init accepts, has two hosts.
ASSUME PoolAssumption ==
    /\ MQVPN_ADDR_POOL_MAX \in Nat /\ MQVPN_ADDR_POOL_MAX >= 2
    /\ TotalHosts \in Nat /\ TotalHosts >= 2

pool_size == IF TotalHosts > MQVPN_ADDR_POOL_MAX THEN MQVPN_ADDR_POOL_MAX ELSE TotalHosts

Offsets == 1 .. MQVPN_ADDR_POOL_MAX

SERVER_OFFSET == 1

mqvpn_addr_pool_t == [next : 2 .. pool_size + 1, used : SUBSET (2 .. pool_size)]

mqvpn_addr_pool_init == [next |-> 2, used |-> {}]

\* The i-th offset the linear scan looks at.
probe(pool, i) == ((pool.next - 1 + i) % pool_size) + 1

free(pool, i) == probe(pool, i) # SERVER_OFFSET /\ probe(pool, i) \notin pool.used

exhausted(pool) == \A i \in 0 .. pool_size - 1 : ~free(pool, i)

\* The first free offset of the scan.
allocated(pool) ==
    LET i == CHOOSE k \in 0 .. pool_size - 1 :
                 free(pool, k) /\ \A j \in 0 .. k - 1 : ~free(pool, j)
    IN  probe(pool, i)

mqvpn_addr_pool_alloc(pool) ==
    [next |-> allocated(pool) + 1, used |-> pool.used \cup {allocated(pool)}]

mqvpn_addr_pool_release(pool, off) ==
    IF off \in 1 .. pool_size THEN [pool EXCEPT !.used = @ \ {off}] ELSE pool
=============================================================================
