-------------------------- MODULE PathStateMachine --------------------------
(***************************************************************************)
(* The lifecycle of ONE path slot of the client: path_state_machine.c.     *)
(*                                                                         *)
(* A slot is a record (path_entry_t).  Every event handler of the C file   *)
(* is an operator from the slot before the event to the slot after it; the *)
(* client's path table (module Client) applies them.                       *)
(*                                                                         *)
(* Time.  The code stores absolute deadlines in microseconds and 0 for     *)
(* "unset".  Here `after` (recreate_after_us) is 0 when unset and 1 + the  *)
(* ticks left otherwise, so 1 means due; `stable` (path_stable_since_us)   *)
(* is 0 when unset and 1 + the ticks elapsed otherwise, saturated at       *)
(* 1 + PATH_STABLE_THRESHOLD, beyond which the code cannot tell ages       *)
(* apart.                                                                  *)
(***************************************************************************)
EXTENDS Integers

CONSTANTS
    PATH_RECREATE_DELAY,        \* first retry delay, in ticks (5 s in the code)
    PATH_RECREATE_MAX_DELAY,    \* backoff ceiling, in ticks (60 s)
    PATH_RECREATE_MAX_RETRIES,  \* failures before CLOSED_RECOVERABLE (6)
    PATH_STABLE_THRESHOLD,      \* ticks of service that restore the budget (30 s)
    MaxPathId,                  \* bound: xquic path ids are 0 .. MaxPathId
    MaxHandle                   \* bound: handles handed out are 1 .. MaxHandle

ASSUME PathTimersAssumption ==
    /\ PATH_RECREATE_DELAY \in Nat \ {0}
    /\ PATH_RECREATE_MAX_DELAY \in Nat \ {0}
    /\ PATH_RECREATE_DELAY <= PATH_RECREATE_MAX_DELAY
    /\ PATH_RECREATE_MAX_RETRIES \in Nat \ {0}
    /\ PATH_STABLE_THRESHOLD \in Nat \ {0}

ASSUME PathBoundsAssumption ==
    /\ MaxPathId \in Nat \ {0}
    /\ MaxHandle \in Nat

PathIds == 0 .. MaxPathId

path_lifecycle_t ==
    {"PENDING", "CREATE_WAIT", "VALIDATING", "ACTIVE", "STANDBY",
     "DEGRADED", "CLOSED_RECOVERABLE", "CLOSED_DROPPED", "CLOSED_FREE"}

\* What xqc_conn_create_path answered, as activate_via_xquic_classify reads it.
activate_result_t == {"OK", "TRANSIENT_FAIL", "PERMANENT_FAIL"}

\* The fields the properties tell apart.  A transport whose ops were cleared
\* is exactly a released one, so ops.send and transport_ctx are not separate.
path_entry_t ==
    [handle   : 0 .. MaxHandle,
     state    : path_lifecycle_t,
     attached : BOOLEAN,                           \* transport_attached
     released : BOOLEAN,                           \* transport_released
     live     : BOOLEAN,                           \* xquic_path_live
     id       : PathIds,                           \* xqc_path_id
     after    : 0 .. PATH_RECREATE_MAX_DELAY + 1,  \* recreate_after_us
     retries  : 0 .. PATH_RECREATE_MAX_RETRIES,    \* recreate_retries
     stable   : 0 .. PATH_STABLE_THRESHOLD + 1]    \* path_stable_since_us

path_public_status_from_lifecycle(s) ==
    CASE s \in {"PENDING", "CREATE_WAIT", "VALIDATING"} -> "PENDING"
      [] s \in {"ACTIVE", "STANDBY", "DEGRADED"}        -> s
      [] OTHER                                          -> "CLOSED"

-----------------------------------------------------------------------------
(* Helpers of the handlers. *)

path_entry_init ==
    [handle |-> 0, state |-> "CLOSED_FREE", attached |-> FALSE,
     released |-> TRUE, live |-> FALSE, id |-> 0, after |-> 0,
     retries |-> 0, stable |-> 0]

\* Doubling from the first delay, clipped to the ceiling.
path_recreate_backoff(retries) ==
    LET delay == PATH_RECREATE_DELAY * 2 ^ (retries - 1)
    IN  IF delay \in 1 .. PATH_RECREATE_MAX_DELAY
        THEN delay
        ELSE PATH_RECREATE_MAX_DELAY

\* Mutant: the retry budget is never exhausted.
apply_failure_forever(p, retry_target) ==
    [p EXCEPT !.live = FALSE, !.id = 0, !.stable = 0,
              !.retries = IF p.retries < PATH_RECREATE_MAX_RETRIES THEN p.retries + 1 ELSE @,
              !.after = 1 + path_recreate_backoff(p.retries + 1),
              !.state = retry_target]

\* recreate_retries saturates at PATH_RECREATE_MAX_RETRIES: the code only
\* compares it with >= that bound.
apply_failure_with_retry_check(p, retry_target) ==
    LET exhausted == p.retries + 1 >= PATH_RECREATE_MAX_RETRIES
    IN  [p EXCEPT !.live    = FALSE,
                  !.id      = 0,
                  !.stable  = 0,
                  !.retries = IF exhausted THEN PATH_RECREATE_MAX_RETRIES
                                           ELSE p.retries + 1,
                  !.after   = IF exhausted THEN 0
                              ELSE 1 + path_recreate_backoff(p.retries + 1),
                  !.state   = IF exhausted THEN "CLOSED_RECOVERABLE"
                                           ELSE retry_target]

activate_ok(p, new_id) ==
    [p EXCEPT !.id = new_id, !.live = TRUE, !.after = 0, !.state = "VALIDATING"]

activate_permanent_fail(p) ==
    [p EXCEPT !.live = FALSE, !.id = 0, !.stable = 0, !.after = 0,
              !.state = "CLOSED_RECOVERABLE"]

maybe_transition_dropped_to_free(p) ==
    IF p.state = "CLOSED_DROPPED" /\ p.released /\ ~p.live /\ p.id = 0
    THEN [p EXCEPT !.state = "CLOSED_FREE"]
    ELSE p

-----------------------------------------------------------------------------
(* The event handlers dispatched by path_on_event. *)

path_on_activate_requested(p, result, new_id) ==
    IF p.state # "PENDING" THEN p
    ELSE CASE result = "OK"             -> activate_ok(p, new_id)
           [] result = "TRANSIENT_FAIL" -> apply_failure_with_retry_check(p, "CREATE_WAIT")
           [] OTHER                     -> activate_permanent_fail(p)

path_on_retry_timer(p, result, new_id) ==
    IF p.state \notin {"CREATE_WAIT", "DEGRADED"} THEN p
    ELSE CASE result = "OK"             -> activate_ok(p, new_id)
           [] result = "TRANSIENT_FAIL" -> apply_failure_with_retry_check(p, p.state)
           [] OTHER                     -> activate_permanent_fail(p)

path_on_validation_ok(p, validated_target) ==
    IF p.state # "VALIDATING" THEN p
    ELSE [p EXCEPT !.stable = 1, !.state = validated_target]

path_on_xquic_removed(p) ==
    CASE p.state = "VALIDATING"             -> apply_failure_with_retry_check(p, "CREATE_WAIT")
      [] p.state \in {"ACTIVE", "STANDBY"}  -> apply_failure_with_retry_check(p, "DEGRADED")
      [] p.state = "CLOSED_DROPPED"         ->
            maybe_transition_dropped_to_free([p EXCEPT !.live = FALSE, !.id = 0])
      [] OTHER                              -> p

path_on_manual_reactivate(p, result, new_id) ==
    IF /\ p.state \in {"CLOSED_RECOVERABLE", "CREATE_WAIT", "DEGRADED"}
       /\ result = "OK"
    THEN activate_ok(p, new_id)
    ELSE p

\* Mutant: the binding does not survive the drop.
path_on_platform_drop_unbinds(p) ==
    IF p.state \in {"CLOSED_DROPPED", "CLOSED_FREE"} THEN p
    ELSE [p EXCEPT !.attached = FALSE, !.live = FALSE, !.id = 0, !.after = 0, !.stable = 0,
                   !.state = "CLOSED_DROPPED"]

path_on_platform_drop(p) ==
    IF p.state \in {"CLOSED_DROPPED", "CLOSED_FREE"} THEN p
    ELSE [p EXCEPT !.attached = FALSE, !.after = 0, !.stable = 0,
                   !.state = "CLOSED_DROPPED"]

path_on_remove_api(p) ==
    IF p.state \in {"CLOSED_DROPPED", "CLOSED_FREE"} THEN p
    ELSE [p EXCEPT !.attached = FALSE, !.after = 0, !.stable = 0,
                   !.state = "CLOSED_DROPPED"]

path_on_add(p) ==
    IF p.state # "CLOSED_FREE" THEN p
    ELSE [p EXCEPT !.attached = TRUE, !.released = FALSE, !.state = "PENDING"]

\* Mutant: a dropped transport that is not yet released is attached again.
path_on_conn_reset_resurrects(p) ==
    IF p.released THEN maybe_transition_dropped_to_free([p EXCEPT !.live = FALSE, !.id = 0])
    ELSE [p EXCEPT !.attached = TRUE, !.live = FALSE, !.id = 0, !.after = 0, !.retries = 0,
                   !.stable = 0, !.state = "PENDING"]

path_on_conn_reset(p) ==
    LET cleared == [p EXCEPT !.live = FALSE, !.id = 0, !.after = 0,
                             !.retries = 0, !.stable = 0]
    IN  IF cleared.attached
        THEN [cleared EXCEPT !.state = "PENDING"]
        ELSE maybe_transition_dropped_to_free(cleared)

path_on_transport_released(p) ==
    IF p.state # "CLOSED_DROPPED" THEN p
    ELSE maybe_transition_dropped_to_free([p EXCEPT !.released = TRUE])

\* Not an event: run on every slot by every tick.
path_fsm_tick_confirm_stable(p) ==
    IF /\ p.state \in {"ACTIVE", "STANDBY"}
       /\ p.live
       /\ p.stable = 1 + PATH_STABLE_THRESHOLD
    THEN [p EXCEPT !.retries = 0, !.stable = 1]
    ELSE p

-----------------------------------------------------------------------------
(* path_invariant_check: what the code asserts of a slot after every event. *)

path_invariant_check(p) ==
    LET unbound == ~p.live /\ p.id = 0
        served  == p.attached /\ ~p.released
        idle    == p.after = 0 /\ p.stable = 0
    IN  /\ p.state = "PENDING"            => served /\ unbound /\ idle
        /\ p.state = "CREATE_WAIT"        => served /\ ~p.live /\ p.after # 0
        /\ p.state \in {"VALIDATING", "ACTIVE", "STANDBY"}
                                          => served /\ p.live /\ p.after = 0
        /\ p.state = "DEGRADED"           => served /\ unbound /\ p.after # 0 /\ p.stable = 0
        /\ p.state = "CLOSED_RECOVERABLE" => served /\ unbound /\ idle
        /\ p.state = "CLOSED_DROPPED"     => ~p.attached /\ idle
        /\ p.state = "CLOSED_FREE"        => ~p.attached /\ p.released /\ unbound /\ idle
=============================================================================
