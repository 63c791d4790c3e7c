-------------------------- MODULE TransportContract --------------------------
(***************************************************************************)
(* What libmqvpn.h promises the owner of a path transport, as an abstract  *)
(* specification: a transport handed to mqvpn_client_add_path is used      *)
(* until it is dropped or removed, is then detached, and is released       *)
(* exactly once -- when the platform says it let go, or by                 *)
(* mqvpn_client_destroy, which releases whatever is left.  A handle is     *)
(* never given out twice.                                                  *)
(***************************************************************************)
EXTENDS Integers

CONSTANT Handles

VARIABLES phase,     \* of each handle
          gone       \* the client is destroyed

tvars == <<phase, gone>>

Phases == {"unborn", "attached", "detached", "released"}

TInit == phase = [h \in Handles |-> "unborn"] /\ gone = FALSE

Move(h, from, to) ==
    /\ ~gone
    /\ phase[h] = from /\ phase'[h] = to
    /\ phase' = [phase EXCEPT ![h] = to]
    /\ UNCHANGED gone

\* Handles are handed out in increasing order.
Add(h) == /\ Move(h, "unborn", "attached")
          /\ \A g \in Handles : g < h => phase[g] # "unborn"

Detach(h) == Move(h, "attached", "detached")

Release(h) == Move(h, "detached", "released")

Destroy ==
    /\ ~gone
    /\ gone' = TRUE
    /\ phase' = [h \in Handles |-> IF phase[h] = "unborn" THEN "unborn" ELSE "released"]

TNext == Destroy \/ \E h \in Handles : Add(h) \/ Detach(h) \/ Release(h)

TSpec == TInit /\ [][TNext]_tvars
=============================================================================
