-------------------------------- MODULE Client --------------------------------
(***************************************************************************)
(* The client core of libmqvpn (mqvpn_client.c): the connection lifecycle, *)
(* the table of path slots, and the xquic connection they are bound to.    *)
(*                                                                         *)
(* Everything runs on one "tick thread": an API call, an xquic callback    *)
(* and each phase of mqvpn_client_tick is one action.  The exception is    *)
(* the restart of a connection from RECONNECTING: its slot reset fires     *)
(* path_event synchronously, and an observer may call back into the        *)
(* library from there, so it is two actions with `in_connect` set between  *)
(* them.                                                                   *)
(*                                                                         *)
(* Timers count ticks down: 0 is unset, 1 is due, k + 1 is due in k ticks. *)
(***************************************************************************)
EXTENDS PathStateMachine

CONSTANTS
    MQVPN_MAX_PATHS,           \* slots in the table
    Multipath,                 \* config.multipath
    BackupFec,                 \* config.scheduler = MQVPN_SCHED_BACKUP_FEC
    RequestServerScheduler,    \* config.request_server_scheduler
    ReconnectEnable,           \* config.reconnect_enable
    RECONNECT_INTERVAL,        \* config.reconnect_interval_sec, in ticks
    RECONNECT_BACKOFF_MAX,     \* ticks
    HANDSHAKE_STALL_TIMEOUT,   \* ticks
    MaxAttempts                \* bound: reconnect_attempts saturates here

ASSUME ClientAssumption ==
    /\ MQVPN_MAX_PATHS \in Nat \ {0}
    /\ {Multipath, BackupFec, RequestServerScheduler, ReconnectEnable} \subseteq BOOLEAN
    /\ RECONNECT_INTERVAL \in Nat \ {0}
    /\ RECONNECT_BACKOFF_MAX \in Nat \ {0}
    /\ RECONNECT_INTERVAL <= RECONNECT_BACKOFF_MAX
    /\ HANDSHAKE_STALL_TIMEOUT \in Nat \ {0}
    /\ MaxAttempts \in Nat

VARIABLES
    state,                     \* mqvpn_client_state_t
    conn,                      \* c->conn: "null", "open", or "closing" (draining in xquic)
    stream,                    \* the CONNECT-IP request: "none", "open", "closed"
    tunnel_ok,                 \* conn->tunnel_ok
    notified,                  \* conn->tunnel_notified, with its reason class
    shutting_down,
    in_connect,
    reconnect_scheduled,       \* timer
    reconnect_attempts,
    handshake_started,         \* timer: HANDSHAKE_STALL_TIMEOUT after the start
    paths, n_paths, next_path_handle, primary_path_idx,
    multipath_ready, hold_extra_paths,
    xqc,                       \* xquic: the state of each path id of the connection
    destroyed,                 \* mqvpn_client_destroy has run
    releases,                  \* history: calls of ops.release, by handle
    closed_calls               \* history: tunnel_closed calls for the current connection

connVars == <<state, conn, stream, tunnel_ok, notified, shutting_down, in_connect,
              reconnect_scheduled, reconnect_attempts, handshake_started, closed_calls>>
tableVars == <<paths, n_paths, next_path_handle>>
mpVars == <<primary_path_idx, multipath_ready, hold_extra_paths>>
vars == <<connVars, tableVars, mpVars, xqc, destroyed, releases>>

Slots == 0 .. MQVPN_MAX_PATHS - 1
Used == 0 .. n_paths - 1                \* the loops "for i < c->n_paths"
Handles == 1 .. MaxHandle
NoPath == [k \in PathIds |-> "none"]    \* xquic has no connection

mqvpn_client_state_t ==
    {"IDLE", "CONNECTING", "AUTHENTICATING", "TUNNEL_READY", "ESTABLISHED",
     "RECONNECTING", "CLOSED"}

state_transitions ==
    {<<"IDLE", "CONNECTING">>,
     <<"CONNECTING", "AUTHENTICATING">>, <<"CONNECTING", "RECONNECTING">>,
     <<"CONNECTING", "CLOSED">>,
     <<"AUTHENTICATING", "TUNNEL_READY">>, <<"AUTHENTICATING", "RECONNECTING">>,
     <<"AUTHENTICATING", "CLOSED">>,
     <<"TUNNEL_READY", "ESTABLISHED">>, <<"TUNNEL_READY", "RECONNECTING">>,
     <<"TUNNEL_READY", "CLOSED">>,
     <<"ESTABLISHED", "RECONNECTING">>, <<"ESTABLISHED", "CLOSED">>,
     <<"RECONNECTING", "CONNECTING">>, <<"RECONNECTING", "CLOSED">>}

FlagsTypeOK ==
    /\ tunnel_ok \in BOOLEAN
    /\ shutting_down \in BOOLEAN
    /\ in_connect \in BOOLEAN
    /\ multipath_ready \in BOOLEAN
    /\ hold_extra_paths \in BOOLEAN
    /\ destroyed \in BOOLEAN

ConnTypeOK ==
    /\ state \in mqvpn_client_state_t
    /\ conn \in {"null", "open", "closing"}
    /\ stream \in {"none", "open", "closed"}
    /\ notified \in {"no", "TLS", "other"}
    /\ reconnect_scheduled \in 0 .. RECONNECT_BACKOFF_MAX + 1
    /\ reconnect_attempts \in 0 .. MaxAttempts
    /\ handshake_started \in 0 .. HANDSHAKE_STALL_TIMEOUT + 1
    /\ closed_calls \in Nat

TableTypeOK ==
    /\ paths \in [Slots -> path_entry_t]
    /\ n_paths \in 0 .. MQVPN_MAX_PATHS
    /\ next_path_handle \in 1 .. MaxHandle + 1
    /\ primary_path_idx \in Slots
    /\ xqc \in [PathIds -> {"none", "validating", "active", "closing"}]
    /\ releases \in [Handles -> Nat]

TypeOK == FlagsTypeOK /\ ConnTypeOK /\ TableTypeOK

\* mqvpn_client_new: no slot is in use, the first handle will be 1.
Init ==
    /\ state = "IDLE" /\ conn = "null" /\ stream = "none"
    /\ tunnel_ok = FALSE /\ notified = "no"
    /\ shutting_down = FALSE /\ in_connect = FALSE
    /\ reconnect_scheduled = 0 /\ reconnect_attempts = 0 /\ handshake_started = 0
    /\ paths = [i \in Slots |-> path_entry_init] /\ n_paths = 0
    /\ next_path_handle = 1 /\ primary_path_idx = 0
    /\ multipath_ready = FALSE /\ hold_extra_paths = FALSE
    /\ xqc = NoPath /\ destroyed = FALSE
    /\ releases = [h \in Handles |-> 0] /\ closed_calls = 0

\* The tick thread is at rest: not inside a restart, client not destroyed.
Idle == ~in_connect /\ ~destroyed

-----------------------------------------------------------------------------
(* Lookups over the table. *)

attached(i) == i \in Used /\ paths[i].attached
bound(i, k) == i \in Used /\ paths[i].live /\ paths[i].id = k

\* Mutant: the walk starts at `from` itself.
client_next_primary_idx_from_self(ps, from) ==
    LET eligible(d) == LET p == ps[(from + d) % n_paths]
                       IN  p.attached /\ path_public_status_from_lifecycle(p.state) # "CLOSED"
    IN  IF n_paths = 0 THEN 0
        ELSE IF \E d \in 0 .. n_paths : eligible(d)
             THEN (from + CHOOSE d \in 0 .. n_paths :
                              eligible(d) /\ \A e \in 0 .. d - 1 : ~eligible(e)) % n_paths
             ELSE from

\* client_next_primary_idx over the table ps: the first eligible slot after
\* `from`, cyclically; `from` when none is.  d is the distance walked.
client_next_primary_idx(ps, from) ==
    LET eligible(d) == LET p == ps[(from + d) % n_paths]
                       IN  p.attached /\ path_public_status_from_lifecycle(p.state) # "CLOSED"
    IN  IF n_paths = 0 THEN 0
        ELSE IF \E d \in 1 .. n_paths : eligible(d)
             THEN (from + CHOOSE d \in 1 .. n_paths :
                              eligible(d) /\ \A e \in 1 .. d - 1 : ~eligible(e)) % n_paths
             ELSE from

\* get_path_entry_for_send: the slot a datagram of xquic path k goes to; -1 for none.
get_path_entry_for_send(k) ==
    LET first(S) == CHOOSE i \in S : \A j \in S : i <= j
        owners   == {i \in Used : bound(i, k)}
        active   == {i \in Used : attached(i)}
    IN  IF owners # {} THEN first(owners)
        ELSE IF attached(primary_path_idx) THEN primary_path_idx
        ELSE IF active # {} THEN first(active) ELSE -1

client_reconnect_delay ==
    LET delay == RECONNECT_INTERVAL * 2 ^ reconnect_attempts
    IN  IF delay \in 1 .. RECONNECT_BACKOFF_MAX THEN delay ELSE RECONNECT_BACKOFF_MAX

client_arm_reconnect_timer ==
    /\ reconnect_scheduled' = 1 + client_reconnect_delay
    /\ reconnect_attempts' =
           IF reconnect_attempts < MaxAttempts THEN reconnect_attempts + 1 ELSE MaxAttempts

\* Mutant: the handshake clock is not started.
client_set_state_no_clock(new) == state' = new /\ UNCHANGED handshake_started

\* client_set_state: the handshake clock runs in CONNECTING only.
client_set_state(new) ==
    /\ state' = new
    /\ handshake_started' = IF new = "CONNECTING" THEN 1 + HANDSHAKE_STALL_TIMEOUT
                            ELSE IF state = "CONNECTING" THEN 0
                            ELSE handshake_started

\* cli_signal_connect_fail: tunnel_closed(reason), once per connection.
cli_signal_connect_fail(reason) ==
    IF notified = "no"
    THEN notified' = reason /\ closed_calls' = closed_calls + 1
    ELSE UNCHANGED <<notified, closed_calls>>

-----------------------------------------------------------------------------
(* Activation: asking xquic for a path, for every slot of A at once. *)

\* xquic refuses (TRANSIENT or PERMANENT) or creates a path under an id that
\* no path of the connection holds; a closing connection only refuses.
xqc_conn_create_path(A, ps, Handler(_, _, _)) ==
    \E result \in [A -> activate_result_t], new_id \in [A -> PathIds \ {0}] :
        LET created == {i \in A : result[i] = "OK"}
        IN  /\ created # {} => conn = "open"
            /\ \A i \in created :
                   /\ xqc[new_id[i]] = "none"
                   /\ \A j \in created : new_id[i] = new_id[j] => i = j
            /\ paths' = [i \in Slots |->
                             IF i \in A THEN Handler(ps[i], result[i], new_id[i]) ELSE ps[i]]
            /\ xqc' = [k \in PathIds |->
                           IF \E i \in created : new_id[i] = k THEN "validating" ELSE xqc[k]]

\* Mutant: the loop stops one slot early.
activate_pending_paths_but_last(ps) ==
    xqc_conn_create_path({i \in 0 .. MQVPN_MAX_PATHS - 2 :
                              ps[i].state = "PENDING" /\ ~ps[i].live},
                         ps, path_on_activate_requested)

activate_pending_paths(ps) ==
    xqc_conn_create_path({i \in Slots : ps[i].state = "PENDING" /\ ~ps[i].live},
                         ps, path_on_activate_requested)

ActivateIf(cond, ps) ==
    IF cond THEN activate_pending_paths(ps) ELSE paths' = ps /\ UNCHANGED xqc

-----------------------------------------------------------------------------
(* The platform's calls on paths.  A handle that no slot in use carries is *)
(* refused, so they range over the slots in use.                           *)

\* The first recycled slot, or a new one at the end of the table.
SlotForAdd(i) ==
    LET free == {j \in Used : paths[j].state = "CLOSED_FREE"}
    IN  IF free # {} THEN i \in free /\ \A j \in free : i <= j
        ELSE i = n_paths /\ n_paths < MQVPN_MAX_PATHS

mqvpn_client_add_path ==
    /\ ~destroyed
    /\ next_path_handle <= MaxHandle
    /\ \E i \in Slots :
        /\ SlotForAdd(i)
        /\ n_paths' = IF i = n_paths THEN n_paths + 1 ELSE n_paths
        /\ next_path_handle' = next_path_handle + 1
        /\ ActivateIf(multipath_ready /\ Multipath /\ conn # "null" /\ ~hold_extra_paths,
                      [paths EXCEPT ![i] = path_on_add(
                          [path_entry_init EXCEPT !.handle = next_path_handle])])
    /\ UNCHANGED <<connVars, mpVars, destroyed, releases>>

\* PATH_ABANDON for a live path; xquic may refuse (last path, closing).
xqc_conn_close_path(i) ==
    \/ UNCHANGED xqc
    \/ /\ paths[i].live /\ conn = "open"
       /\ xqc' = [xqc EXCEPT ![paths[i].id] = "closing"]

mqvpn_client_remove_path(i) ==
    /\ ~destroyed
    /\ i \in Used
    /\ paths[i].state # "CLOSED_FREE"
    /\ xqc_conn_close_path(i)
    /\ paths' = [paths EXCEPT ![i] = path_on_remove_api(@)]
    /\ UNCHANGED <<connVars, mpVars, n_paths, next_path_handle, destroyed, releases>>

mqvpn_client_on_platform_path_dropped(i) ==
    /\ ~destroyed
    /\ i \in Used
    /\ xqc_conn_close_path(i)
    /\ paths' = [paths EXCEPT ![i] = path_on_platform_drop(@)]
    /\ UNCHANGED <<connVars, mpVars, n_paths, next_path_handle, destroyed, releases>>

mqvpn_client_on_platform_path_released(i) ==
    /\ ~destroyed
    /\ i \in Used
    /\ paths[i].state = "CLOSED_DROPPED"
    /\ ~paths[i].released
    /\ releases' = [releases EXCEPT ![paths[i].handle] = @ + 1]
    /\ paths' = [paths EXCEPT ![i] = path_on_transport_released(@)]
    /\ UNCHANGED <<connVars, mpVars, n_paths, next_path_handle, xqc, destroyed>>

reactivate_slot_eligible(p) ==
    /\ ~p.live
    /\ p.attached
    /\ p.state \in {"DEGRADED", "CREATE_WAIT", "CLOSED_RECOVERABLE"}

mqvpn_client_reactivate_path(i) ==
    /\ Idle
    /\ state = "ESTABLISHED"
    /\ multipath_ready
    /\ i \in Used
    /\ reactivate_slot_eligible(paths[i])
    /\ xqc_conn_create_path({i}, paths, path_on_manual_reactivate)
    /\ UNCHANGED <<connVars, mpVars, n_paths, next_path_handle, destroyed, releases>>
-----------------------------------------------------------------------------
(* xquic: path events of the open connection. *)

cb_ready_to_create_path ==
    /\ Idle
    /\ conn = "open"
    /\ multipath_ready' = TRUE
    /\ ActivateIf(Multipath /\ ~hold_extra_paths, paths)
    /\ UNCHANGED <<connVars, n_paths, next_path_handle, primary_path_idx,
                   hold_extra_paths, destroyed, releases>>

\* Path validation completes inside xquic; the client learns it by polling.
xqc_path_validated(k) ==
    /\ Idle
    /\ conn = "open"
    /\ xqc[k] = "validating"
    /\ xqc' = [xqc EXCEPT ![k] = "active"]
    /\ UNCHANGED <<connVars, tableVars, mpVars, destroyed, releases>>

\* A path of a live connection ends: validation failed, timed out, abandoned.
cb_path_removed(k) ==
    /\ Idle
    /\ conn # "null"
    /\ xqc[k] # "none"
    /\ xqc' = [xqc EXCEPT ![k] = "none"]
    /\ paths' = [i \in Slots |-> IF bound(i, k) THEN path_on_xquic_removed(paths[i])
                                                ELSE paths[i]]
    /\ UNCHANGED <<connVars, n_paths, next_path_handle, mpVars, destroyed, releases>>

-----------------------------------------------------------------------------
(* Starting a connection. *)

primary_ready ==
    n_paths > 0 /\ primary_path_idx < n_paths => paths[primary_path_idx].attached

\* cli_start_connection succeeding: path id 0 is the bootstrap path, bound to
\* the primary slot when there is one.
cli_start_connection ==
    /\ conn = "null"
    /\ primary_ready
    /\ conn' = "open" /\ stream' = "none"
    /\ tunnel_ok' = FALSE /\ notified' = "no" /\ closed_calls' = 0
    /\ xqc' = [NoPath EXCEPT ![0] = "validating"]
    /\ paths' = [i \in Slots |->
                    IF i \in Used /\ i = primary_path_idx
                    THEN [paths[i] EXCEPT !.id = 0, !.live = TRUE, !.state = "VALIDATING"]
                    ELSE paths[i]]

\* The first connect.  A failed start leaves the client in IDLE, unchanged.
mqvpn_client_connect ==
    /\ Idle
    /\ state = "IDLE"
    /\ cli_start_connection
    /\ client_set_state("CONNECTING")
    /\ UNCHANGED <<shutting_down, in_connect, reconnect_scheduled, reconnect_attempts,
                   n_paths, next_path_handle, mpVars, destroyed, releases>>

\* client_reset_paths_for_reconnect, with the fence up.
client_reset_paths_for_reconnect ==
    /\ reconnect_scheduled' = 0
    /\ in_connect' = TRUE
    /\ multipath_ready' = FALSE
    /\ hold_extra_paths' = FALSE
    /\ LET ps == [i \in Slots |-> IF i \in Used THEN path_on_conn_reset(paths[i])
                                                ELSE paths[i]]
       IN  /\ paths' = ps
           /\ primary_path_idx' = client_next_primary_idx(ps, primary_path_idx)
    /\ UNCHANGED <<state, conn, stream, tunnel_ok, notified, shutting_down,
                   reconnect_attempts, handshake_started, closed_calls,
                   n_paths, next_path_handle, xqc, destroyed, releases>>

\* connect() called by the application while RECONNECTING.
mqvpn_client_connect_again ==
    /\ Idle
    /\ state = "RECONNECTING"
    /\ client_reset_paths_for_reconnect

tick_reconnect ==
    /\ Idle
    /\ state = "RECONNECTING"
    /\ reconnect_scheduled = 1
    /\ client_reset_paths_for_reconnect

\* The second half of both: the start succeeds, or fails (no transport on the
\* primary slot, or xqc_h3_connect) and the retry timer is armed again.
restart_ok ==
    /\ in_connect
    /\ cli_start_connection
    /\ client_set_state("CONNECTING")
    /\ in_connect' = FALSE
    /\ UNCHANGED <<shutting_down, reconnect_scheduled, reconnect_attempts,
                   n_paths, next_path_handle, mpVars, destroyed, releases>>

\* Mutant: a failed attempt does not schedule the next one.
restart_failed_unarmed ==
    /\ in_connect
    /\ in_connect' = FALSE
    /\ UNCHANGED <<state, conn, stream, tunnel_ok, notified, shutting_down,
                   reconnect_scheduled, reconnect_attempts, handshake_started, closed_calls,
                   tableVars, mpVars, xqc, destroyed, releases>>

restart_failed ==
    /\ in_connect
    /\ in_connect' = FALSE
    /\ client_arm_reconnect_timer
    /\ UNCHANGED <<state, conn, stream, tunnel_ok, notified, shutting_down,
                   handshake_started, closed_calls, tableVars, mpVars, xqc,
                   destroyed, releases>>

-----------------------------------------------------------------------------
(* Handshake and CONNECT-IP request. *)

cli_report_cert_rejected ==
    /\ Idle
    /\ conn = "open"
    /\ state = "CONNECTING"
    /\ notified = "no"
    /\ cli_signal_connect_fail("TLS")
    /\ UNCHANGED <<state, conn, stream, tunnel_ok, shutting_down, in_connect,
                   reconnect_scheduled, reconnect_attempts, handshake_started,
                   tableVars, mpVars, xqc, destroyed, releases>>

\* cb_h3_conn_handshake_finished and cli_masque_start_tunnel, whose failure to
\* create the request is not acted upon.
cb_h3_conn_handshake_finished ==
    /\ Idle
    /\ conn = "open"
    /\ state = "CONNECTING"
    /\ notified = "no"
    /\ client_set_state("AUTHENTICATING")
    /\ \/ stream' = "none" /\ UNCHANGED hold_extra_paths
       \/ /\ stream' = "open"
          /\ hold_extra_paths' = (hold_extra_paths \/ RequestServerScheduler)
    /\ UNCHANGED <<conn, tunnel_ok, notified, shutting_down, in_connect,
                   reconnect_scheduled, reconnect_attempts, closed_calls,
                   tableVars, primary_path_idx, multipath_ready, xqc, destroyed, releases>>

\* The first final status decides: 200, or a failure signalled once.
cli_connect_ip_scan_headers ==
    /\ Idle
    /\ conn = "open" /\ stream = "open"
    /\ ~tunnel_ok /\ notified = "no"
    /\ \/ tunnel_ok' = TRUE /\ UNCHANGED <<notified, closed_calls>>
       \/ cli_signal_connect_fail("other") /\ UNCHANGED tunnel_ok
    /\ UNCHANGED <<state, conn, stream, shutting_down, in_connect, reconnect_scheduled,
                   reconnect_attempts, handshake_started,
                   tableVars, mpVars, xqc, destroyed, releases>>

\* ADDRESS_ASSIGN arrived: validate the bootstrap path, report the tunnel,
\* end the hold on the other paths.
cli_connect_ip_on_body ==
    /\ Idle
    /\ conn = "open" /\ stream = "open"
    /\ tunnel_ok /\ notified = "no"
    /\ state \notin {"ESTABLISHED", "TUNNEL_READY"}
    /\ client_set_state("TUNNEL_READY")
    /\ reconnect_attempts' = 0
    /\ hold_extra_paths' = FALSE
    /\ LET ps == [i \in Slots |->
                     IF i = primary_path_idx /\ attached(i) /\ paths[i].id = 0
                     THEN path_on_validation_ok(paths[i], "ACTIVE")
                     ELSE paths[i]]
       IN  ActivateIf(hold_extra_paths /\ multipath_ready /\ Multipath, ps)
    /\ UNCHANGED <<conn, stream, tunnel_ok, notified, shutting_down, in_connect,
                   reconnect_scheduled, closed_calls, n_paths, next_path_handle,
                   primary_path_idx, multipath_ready, destroyed, releases>>

\* The tunnel cannot carry IPv6's minimum MTU (on a body or an MSS update).
cli_check_ipv6_mtu ==
    /\ Idle
    /\ conn = "open"
    /\ tunnel_ok \/ state \in {"TUNNEL_READY", "ESTABLISHED"}
    /\ tunnel_ok' = FALSE
    /\ conn' = "closing"
    /\ cli_signal_connect_fail("other")
    /\ UNCHANGED <<state, stream, shutting_down, in_connect, reconnect_scheduled,
                   reconnect_attempts, handshake_started,
                   tableVars, mpVars, xqc, destroyed, releases>>

cli_connect_ip_on_request_close ==
    /\ Idle
    /\ conn # "null" /\ stream = "open"
    /\ stream' = "closed"
    /\ tunnel_ok' = FALSE
    /\ IF ~tunnel_ok /\ ~shutting_down THEN cli_signal_connect_fail("other")
       ELSE UNCHANGED <<notified, closed_calls>>
    /\ UNCHANGED <<state, conn, shutting_down, in_connect, reconnect_scheduled,
                   reconnect_attempts, handshake_started,
                   tableVars, mpVars, xqc, destroyed, releases>>

mqvpn_client_set_tun_active ==
    /\ ~destroyed
    /\ state = "TUNNEL_READY"
    /\ client_set_state("ESTABLISHED")
    /\ UNCHANGED <<conn, stream, tunnel_ok, notified, shutting_down, in_connect,
                   reconnect_scheduled, reconnect_attempts, closed_calls,
                   tableVars, mpVars, xqc, destroyed, releases>>
-----------------------------------------------------------------------------
(* Ending a connection. *)

\* What is left of a connection once xquic has closed it: cli_notify_conn_closed
\* (after the stream's own close notify) and cli_conn_destroy.
conn_closed ==
    /\ closed_calls' = IF notified = "no" THEN closed_calls + 1 ELSE closed_calls
    /\ conn' = "null" /\ stream' = "none" /\ tunnel_ok' = FALSE /\ notified' = "no"
    /\ xqc' = NoPath

\* xquic closed the connection: the peer, an idle timeout, or our own close.
\* No path_removed callback is fired, so the slots keep their stale bindings.
cb_h3_conn_close ==
    /\ Idle
    /\ conn # "null"
    /\ conn_closed
    /\ IF ~shutting_down /\ ReconnectEnable /\ notified # "TLS"
       THEN client_arm_reconnect_timer /\ client_set_state("RECONNECTING")
       ELSE client_set_state("CLOSED") /\ UNCHANGED <<reconnect_scheduled, reconnect_attempts>>
    /\ UNCHANGED <<shutting_down, in_connect, tableVars, mpVars, destroyed, releases>>

\* Mutant: the fence of a restart under way is not honoured.
mqvpn_client_disconnect_unfenced ==
    /\ ~destroyed
    /\ state \notin {"CLOSED", "IDLE"}
    /\ shutting_down' = TRUE
    /\ client_set_state("CLOSED")
    /\ \/ conn # "null" /\ conn_closed
       \/ /\ conn' = IF conn = "null" THEN "null" ELSE "closing"
          /\ UNCHANGED <<stream, tunnel_ok, notified, closed_calls, xqc>>
    /\ UNCHANGED <<in_connect, reconnect_scheduled, reconnect_attempts,
                   tableVars, mpVars, destroyed, releases>>

\* The close completes inside the call, or drains in later ticks.
mqvpn_client_disconnect ==
    /\ Idle
    /\ state \notin {"CLOSED", "IDLE"}
    /\ shutting_down' = TRUE
    /\ client_set_state("CLOSED")
    /\ \/ conn # "null" /\ conn_closed
       \/ /\ conn' = IF conn = "null" THEN "null" ELSE "closing"
          /\ UNCHANGED <<stream, tunnel_ok, notified, closed_calls, xqc>>
    /\ UNCHANGED <<in_connect, reconnect_scheduled, reconnect_attempts,
                   tableVars, mpVars, destroyed, releases>>

\* Whole-object teardown: the final flush or the end of the engine may still
\* report the close of a connection; every transport owed a release gets it.
mqvpn_client_destroy ==
    /\ Idle
    /\ destroyed' = TRUE
    /\ shutting_down' = TRUE
    /\ \/ conn # "null" /\ conn_closed /\ client_set_state("CLOSED")
       \/ /\ conn' = "null" /\ stream' = "none" /\ tunnel_ok' = FALSE /\ notified' = "no"
          /\ xqc' = NoPath
          /\ UNCHANGED <<state, handshake_started, closed_calls>>
    /\ releases' = [h \in Handles |->
                       IF \E i \in Used : paths[i].handle = h /\ ~paths[i].released
                       THEN releases[h] + 1 ELSE releases[h]]
    /\ UNCHANGED <<in_connect, reconnect_scheduled, reconnect_attempts, tableVars, mpVars>>

-----------------------------------------------------------------------------
(* The phases of mqvpn_client_tick (tick_reconnect is above). *)

\* The branch for a missing connection is written out; ConnMatchesState says
\* that it is dead code.
tick_handshake_watchdog ==
    /\ Idle
    /\ ~shutting_down
    /\ state = "CONNECTING"
    /\ handshake_started = 1
    /\ IF conn # "null"
       THEN /\ handshake_started' = 0
            /\ conn' = "closing"
            /\ UNCHANGED <<state, reconnect_scheduled, reconnect_attempts>>
       ELSE /\ client_arm_reconnect_timer
            /\ client_set_state("RECONNECTING")
            /\ UNCHANGED conn
    /\ UNCHANGED <<stream, tunnel_ok, notified, shutting_down, in_connect, closed_calls,
                   tableVars, mpVars, xqc, destroyed, releases>>

validated_target == IF BackupFec THEN "STANDBY" ELSE "ACTIVE"

tick_check_validation(p) ==
    IF p.state = "VALIDATING" /\ xqc[p.id] = "active"
    THEN path_on_validation_ok(p, validated_target) ELSE p

\* Mutant: only degraded paths are retried.
retry_due_degraded(p) == p.state = "DEGRADED" /\ p.after = 1

retry_due(p) == p.state \in {"DEGRADED", "CREATE_WAIT"} /\ p.after = 1

\* Per slot the code polls validation, drives the retry timer, then confirms
\* stability.  The last only concerns ACTIVE and STANDBY slots and the second
\* only slots that are neither before nor after it, so they commute.
tick_path_recovery ==
    /\ Idle
    /\ multipath_ready
    /\ state = "ESTABLISHED"
    /\ LET ps == [i \in Slots |->
                     IF i \in Used
                     THEN path_fsm_tick_confirm_stable(tick_check_validation(paths[i]))
                     ELSE paths[i]]
       IN  xqc_conn_create_path({i \in Used : retry_due(ps[i])}, ps, path_on_retry_timer)
    /\ UNCHANGED <<connVars, n_paths, next_path_handle, mpVars, destroyed, releases>>

\* One tick of the clock.
count_down(t) == IF t > 1 THEN t - 1 ELSE t

Elapse ==
    /\ Idle
    /\ reconnect_scheduled' = count_down(reconnect_scheduled)
    /\ handshake_started' = count_down(handshake_started)
    /\ paths' = [i \in Slots |->
                    [paths[i] EXCEPT
                        !.after  = count_down(@),
                        !.stable = IF @ \in 1 .. PATH_STABLE_THRESHOLD THEN @ + 1 ELSE @]]
    /\ UNCHANGED <<state, conn, stream, tunnel_ok, notified, shutting_down, in_connect,
                   reconnect_attempts, closed_calls, n_paths, next_path_handle, mpVars,
                   xqc, destroyed, releases>>

\* A destroyed client is gone for good.
Gone == destroyed /\ UNCHANGED vars

-----------------------------------------------------------------------------
Next ==
    \/ mqvpn_client_add_path
    \/ \E i \in Slots : \/ mqvpn_client_remove_path(i)
                        \/ mqvpn_client_on_platform_path_dropped(i)
                        \/ mqvpn_client_on_platform_path_released(i)
                        \/ mqvpn_client_reactivate_path(i)
    \/ cb_ready_to_create_path
    \/ \E k \in PathIds : xqc_path_validated(k) \/ cb_path_removed(k)
    \/ mqvpn_client_connect
    \/ mqvpn_client_connect_again
    \/ tick_reconnect
    \/ restart_ok
    \/ restart_failed
    \/ cli_report_cert_rejected
    \/ cb_h3_conn_handshake_finished
    \/ cli_connect_ip_scan_headers
    \/ cli_connect_ip_on_body
    \/ cli_check_ipv6_mtu
    \/ cli_connect_ip_on_request_close
    \/ mqvpn_client_set_tun_active
    \/ cb_h3_conn_close
    \/ mqvpn_client_disconnect
    \/ mqvpn_client_destroy
    \/ tick_handshake_watchdog
    \/ tick_path_recovery
    \/ Elapse
    \/ Gone

Spec == Init /\ [][Next]_vars
-----------------------------------------------------------------------------
(* Safety. *)

\* Every slot in use satisfies what path_invariant_check asserts, also after the
\* writes that bypass path_on_event (primary bootstrap, clock, validation poll).
SlotInvariant == \A i \in Used : path_invariant_check(paths[i])

\* While a connection exists, the slots' bindings are a matching with xquic's
\* paths: a live slot's path id is one xquic has, no two slots hold the same id,
\* and every path xquic created through the client belongs to a slot, so
\* find_path_by_xqc_id finds the one right slot and no path is orphaned.
BindingMatchesXquic ==
    conn # "null" =>
        /\ \A i \in Used : paths[i].live => xqc[paths[i].id] # "none"
        /\ \A i, j \in Used :
               paths[i].live /\ paths[j].live /\ paths[i].id = paths[j].id => i = j
        /\ \A k \in PathIds \ {0} : xqc[k] # "none" => \E i \in Used : bound(i, k)

\* ops.release is called exactly once for every transport handed to add_path:
\* never before its slot is dropped, once when the platform lets go or the
\* client is destroyed, never again although the slot is recycled.
ReleasedExactlyOnce ==
    \A h \in Handles :
        releases[h] = IF /\ h < next_path_handle
                         /\ \/ destroyed
                            \/ \A i \in Used : paths[i].handle = h => paths[i].released
                      THEN 1 ELSE 0

\* A datagram of an xquic path never leaves through another slot's transport
\* (get_path_entry_for_send): only the bootstrap path, and only while no slot is
\* bound to it, falls back to the primary or the first attached slot.
NoSiblingSend ==
    conn # "null" =>
        \A k \in PathIds :
            xqc[k] # "none" =>
                LET i == get_path_entry_for_send(k)
                IN  bound(i, k) \/ (k = 0 /\ \A j \in Used : ~bound(j, 0))

\* The states that use c->conn without a test (activate_via_xquic_classify, the
\* watchdog's first branch) have a connection, and the states that start one
\* have none.
ConnMatchesState ==
    ~destroyed =>
        /\ state \in {"CONNECTING", "AUTHENTICATING", "TUNNEL_READY", "ESTABLISHED"}
               => conn # "null"
        /\ state \in {"IDLE", "RECONNECTING"} => conn = "null"

\* A client in RECONNECTING always has its retry timer armed outside of a restart:
\* no failure of a manual or automatic attempt strands it.
ReconnectNeverStranded ==
    state = "RECONNECTING" /\ ~in_connect => reconnect_scheduled # 0

\* Once multipath is negotiated and the hold is over, no attached path of the
\* connection is left waiting for an activation that nobody will request.
NoForgottenPath ==
    conn # "null" /\ multipath_ready /\ Multipath /\ ~hold_extra_paths =>
        \A i \in Used : paths[i].state # "PENDING"

\* tunnel_closed is called at most once per connection, and exactly once by the
\* time the connection is gone, whoever saw the failure first.
TunnelClosedOnce ==
    /\ closed_calls <= 1
    /\ conn # "null" => (closed_calls = 1 <=> notified # "no")
    /\ ~destroyed /\ conn = "null" /\ state # "IDLE" => closed_calls = 1

\* cli_signal_connect_fail's assertion: a failure is never signalled for a
\* connection whose tunnel is up.
NoFailureOnLiveTunnel == notified # "no" => ~tunnel_ok

\* What holds between any two calls into the client: the types, path_invariant_check
\* of every slot, no path that nobody will activate, a send only through the right
\* slot, the client state agreeing with c->conn and with the armed timer, and every
\* connection's end and every transport's release reported exactly once.
ClientSafe ==
    /\ TypeOK
    /\ SlotInvariant
    /\ NoForgottenPath
    /\ NoSiblingSend
    /\ ConnMatchesState
    /\ ReconnectNeverStranded
    /\ TunnelClosedOnce
    /\ NoFailureOnLiveTunnel
    /\ ReleasedExactlyOnce

\* client_set_state's assertion: every change of state is in the transition table.
LegalTransitions ==
    [][state' # state => <<state, state'>> \in state_transitions]_state

\* A handle names one transport for ever: a slot only gets a new handle, larger
\* than any before, by being recycled from CLOSED_FREE, and every transport that
\* was in it has been released by then.
HandleNeverReused ==
    [][\A i \in Slots :
           paths'[i].handle # paths[i].handle =>
               /\ paths[i].state = "CLOSED_FREE"
               /\ paths[i].handle # 0 => releases[paths[i].handle] = 1
               /\ \A j \in Slots : paths[j].handle < paths'[i].handle]_paths
-----------------------------------------------------------------------------
(* The client keeps the transport contract of libmqvpn.h. *)

\* The client holds the transport h in an attached slot.
Holds(h) == \E i \in Used : paths[i].handle = h /\ paths[i].attached

phase ==
    [h \in Handles |->
        IF h >= next_path_handle THEN "unborn"
        ELSE IF releases[h] > 1 THEN "released twice"
        ELSE IF releases[h] = 1 THEN "released"
        ELSE IF Holds(h) THEN "attached" ELSE "detached"]

TC == INSTANCE TransportContract WITH phase <- phase, gone <- destroyed

\* Every step of the client is a step of the transport contract, or none: a
\* transport goes from attached to detached to released, each once, whatever the
\* order of drops, releases, reconnects, slot recycling and destruction.
KeepsTransportContract == TC!TSpec

-----------------------------------------------------------------------------
(* Liveness, under the fairness of MCClientLive: the application ticks the client
   (mqvpn_client_get_interest tells it when), so time passes, every tick runs its
   phases, and xquic reports the end of a connection that is closing.  Nothing is
   assumed of the peer, of the network, or of the platform. *)

\* A handshake never hangs: a client in CONNECTING leaves it, by the watchdog if
\* nothing else happens.
HandshakeEnds == state = "CONNECTING" ~> state # "CONNECTING" \/ destroyed

\* A client that lost its connection tries again, or was told to stop.
ReconnectAttempted == state = "RECONNECTING" ~> in_connect \/ state # "RECONNECTING" \/ destroyed

retrying(i) == paths[i].state \in {"CREATE_WAIT", "DEGRADED"}

\* A due retry is taken: a slot does not stay in CREATE_WAIT or DEGRADED on an
\* established multipath connection, its budget runs out at the latest.
RetryConcludes ==
    \A i \in Slots :
        retrying(i) /\ state = "ESTABLISHED" /\ multipath_ready
            ~> ~(retrying(i) /\ state = "ESTABLISHED" /\ multipath_ready) \/ destroyed

\* A flapping path is not retried for ever: a slot that fails again and again has
\* its budget restored again and again (30 s of service, a new connection, a new
\* transport).
FlappingIsBounded ==
    \A i \in Slots :
        []<>retrying(i) /\ []<>~retrying(i) => []<>(paths[i].retries = 0)
=============================================================================
