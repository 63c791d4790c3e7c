---------------------------- MODULE MCClientLive ----------------------------
(***************************************************************************)
(* The client under fairness, in two instances that share the run: one     *)
(* path of a multipath connection, and the rotation of the bootstrap slot  *)
(* over three paths of a single-path one.                                  *)
(***************************************************************************)
EXTENDS Client

VARIABLE instance

R == INSTANCE Client WITH Multipath <- FALSE, MQVPN_MAX_PATHS <- 3, MaxHandle <- 3,
         BackupFec <- FALSE, RequestServerScheduler <- FALSE, MaxAttempts <- 0,
         PATH_RECREATE_MAX_DELAY <- 1, PATH_RECREATE_MAX_RETRIES <- 2,
         PATH_STABLE_THRESHOLD <- 1, RECONNECT_BACKOFF_MAX <- 1

LiveInit ==
    \/ instance = "multipath" /\ Init
    \/ instance = "rotation" /\ R!Init

LiveNext ==
    /\ UNCHANGED instance
    /\ \/ instance = "multipath" /\ Next
       \/ instance = "rotation" /\ R!Next

LiveSpec ==
    /\ LiveInit /\ [][LiveNext]_<<vars, instance>>
    /\ WF_vars(instance = "multipath" /\ Elapse)
    /\ WF_vars(instance = "multipath" /\ tick_path_recovery)
    /\ WF_vars(instance = "multipath" /\ tick_reconnect)
    /\ WF_vars(instance = "multipath" /\ (restart_ok \/ restart_failed))
    /\ WF_vars(instance = "multipath" /\ tick_handshake_watchdog)
    /\ WF_vars(instance = "multipath" /\ conn = "closing" /\ cb_h3_conn_close)
    /\ WF_vars(instance = "rotation" /\ R!Elapse)
    /\ WF_vars(instance = "rotation" /\ R!tick_path_recovery)
    /\ WF_vars(instance = "rotation" /\ R!tick_reconnect)
    /\ WF_vars(instance = "rotation" /\ (R!restart_ok \/ R!restart_failed))
    /\ WF_vars(instance = "rotation" /\ R!tick_handshake_watchdog)
    /\ WF_vars(instance = "rotation" /\ conn = "closing" /\ R!cb_h3_conn_close)

\* The rotation of the bootstrap slot (client_next_primary_idx) reaches every
\* path that stays attached, again and again.
RotationReachesAll ==
    \A j \in R!Slots :
        []<>(instance = "rotation" /\ in_connect) /\ <>[](instance = "rotation" /\ R!attached(j))
            => []<>(primary_path_idx = j)
=============================================================================
