-------------------------- MODULE ClientTableProofs ---------------------------
(*****************************************************************************)
(* The slots of the client's path table, its connection lifecycle (the       *)
(* flags, the state and what it signals to the platform), and the path       *)
(* table: the inductive invariant of the slots and of their bindings to      *)
(* xquic's paths, and the events that move one slot.                         *)
(*****************************************************************************)
EXTENDS Client, WellFoundedInduction, TLAPS

-----------------------------------------------------------------------------
(* One slot: every event handler of path_state_machine.c maps a well-formed  *)
(* slot that satisfies path_invariant_check to another one, and says which   *)
(* slot is bound to an xquic path afterwards.                                *)

\* A slot whose fields have their types and whose invariant check passes.
GoodSlot(p) == p \in path_entry_t /\ path_invariant_check(p)

\* The ranges of the numeric fields.
AfterRange == 0 .. PATH_RECREATE_MAX_DELAY + 1
RetriesRange == 0 .. PATH_RECREATE_MAX_RETRIES
StableRange == 0 .. PATH_STABLE_THRESHOLD + 1

\* Writing one field of path_entry_t keeps the slot well typed.
LEMMA WriteField ==
    ASSUME NEW p \in path_entry_t
    PROVE  /\ \A v \in 0 .. MaxHandle    : [p EXCEPT !.handle = v] \in path_entry_t
           /\ \A v \in path_lifecycle_t  : [p EXCEPT !.state = v] \in path_entry_t
           /\ \A v \in BOOLEAN           : [p EXCEPT !.attached = v] \in path_entry_t
           /\ \A v \in BOOLEAN           : [p EXCEPT !.released = v] \in path_entry_t
           /\ \A v \in BOOLEAN           : [p EXCEPT !.live = v] \in path_entry_t
           /\ \A v \in PathIds           : [p EXCEPT !.id = v] \in path_entry_t
           /\ \A v \in AfterRange        : [p EXCEPT !.after = v] \in path_entry_t
           /\ \A v \in RetriesRange      : [p EXCEPT !.retries = v] \in path_entry_t
           /\ \A v \in StableRange       : [p EXCEPT !.stable = v] \in path_entry_t
  BY DEF path_entry_t, AfterRange, RetriesRange, StableRange


\* The backoff delay is a positive number of ticks within the ceiling.
LEMMA BackoffInRange ==
    ASSUME NEW r
    PROVE  path_recreate_backoff(r) \in 1 .. PATH_RECREATE_MAX_DELAY
  BY PathTimersAssumption DEF path_recreate_backoff

\* What no handler changes.
SameTransport(p, q) ==
    q.handle = p.handle /\ q.attached = p.attached /\ q.released = p.released

\* Zero is in every range that is written with it.
LEMMA ZeroInRanges ==
    /\ 0 \in PathIds /\ 0 \in AfterRange /\ 0 \in RetriesRange /\ 0 \in StableRange
    /\ 1 \in StableRange /\ 0 \in 0 .. MaxHandle
  BY PathTimersAssumption, PathBoundsAssumption
  DEF PathIds, AfterRange, RetriesRange, StableRange

\* A slot that path_entry_init produced, carrying any handle, is well formed.
LEMMA InitIsGood ==
    /\ GoodSlot(path_entry_init)
    /\ \A h \in 0 .. MaxHandle :
          LET q == [path_entry_init EXCEPT !.handle = h]
          IN  /\ GoodSlot(q)
              /\ q.state = "CLOSED_FREE" /\ q.handle = h
  <1>1. path_entry_init \in path_entry_t
    BY ZeroInRanges
    DEF path_entry_init, path_entry_t, path_lifecycle_t, AfterRange, RetriesRange, StableRange
  <1>2. path_invariant_check(path_entry_init)
    BY DEF path_entry_init, path_invariant_check
  <1>3. ASSUME NEW h \in 0 .. MaxHandle
        PROVE  LET q == [path_entry_init EXCEPT !.handle = h]
               IN  /\ GoodSlot(q)
                   /\ q.state = "CLOSED_FREE" /\ q.handle = h
    <2> DEFINE q == [path_entry_init EXCEPT !.handle = h]
    <2>1. q \in path_entry_t
      BY <1>1, WriteField
    <2>2. /\ q.state = path_entry_init.state /\ q.attached = path_entry_init.attached
          /\ q.released = path_entry_init.released /\ q.live = path_entry_init.live
          /\ q.id = path_entry_init.id /\ q.after = path_entry_init.after
          /\ q.stable = path_entry_init.stable /\ q.handle = h
      BY <1>1 DEF path_entry_t
    <2>3. path_invariant_check(q) /\ q.state = "CLOSED_FREE"
      BY <2>2 DEF path_invariant_check, path_entry_init
    <2> QED BY <2>1, <2>2, <2>3 DEF GoodSlot
  <1> QED BY <1>1, <1>2, <1>3 DEF GoodSlot

\* apply_failure_with_retry_check leaves a well-formed slot, unbound, in the retry
\* state or in CLOSED_RECOVERABLE.
LEMMA FailureIsGood ==
    ASSUME NEW p \in path_entry_t, p.attached, ~p.released,
           NEW target \in {"CREATE_WAIT", "DEGRADED"}
    PROVE  LET q == apply_failure_with_retry_check(p, target)
           IN  /\ GoodSlot(q) /\ SameTransport(p, q)
               /\ ~q.live
               /\ q.state \in {"CREATE_WAIT", "DEGRADED", "CLOSED_RECOVERABLE"}
  <1> DEFINE q == apply_failure_with_retry_check(p, target)
             exhausted == p.retries + 1 >= PATH_RECREATE_MAX_RETRIES
             r == IF exhausted THEN PATH_RECREATE_MAX_RETRIES ELSE p.retries + 1
             a == IF exhausted THEN 0 ELSE 1 + path_recreate_backoff(p.retries + 1)
             s == IF exhausted THEN "CLOSED_RECOVERABLE" ELSE target
             p1 == [p EXCEPT !.live = FALSE]
             p2 == [p1 EXCEPT !.id = 0]
             p3 == [p2 EXCEPT !.stable = 0]
             p4 == [p3 EXCEPT !.retries = r]
             p5 == [p4 EXCEPT !.after = a]
             p6 == [p5 EXCEPT !.state = s]
  <1>1. path_recreate_backoff(p.retries + 1) \in 1 .. PATH_RECREATE_MAX_DELAY
    BY BackoffInRange
  <1>2. a \in AfterRange /\ s \in path_lifecycle_t
    BY <1>1, PathTimersAssumption DEF AfterRange, path_lifecycle_t
  <1>3. r \in RetriesRange
    BY PathTimersAssumption DEF RetriesRange, path_entry_t
  <1>4. q = p6
    BY DEF apply_failure_with_retry_check
  <1> HIDE DEF r, a, s
  <1>5. p3 \in path_entry_t
    <2>1. p1 \in path_entry_t BY WriteField, Zenon
    <2>2. p2 \in path_entry_t BY <2>1, WriteField, ZeroInRanges, Zenon
    <2> QED BY <2>2, WriteField, ZeroInRanges, Zenon
  <1>6. p6 \in path_entry_t
    <2>1. p4 \in path_entry_t BY <1>5, <1>3, WriteField, Zenon
    <2>2. p5 \in path_entry_t BY <2>1, <1>2, WriteField, Zenon
    <2> QED BY <2>2, <1>2, WriteField, Zenon
  <1>7. path_invariant_check(q)
    BY <1>1, PathTimersAssumption
    DEF apply_failure_with_retry_check, path_entry_t, path_invariant_check
  <1>8. ~q.live /\ SameTransport(p, q)
        /\ q.state \in {"CREATE_WAIT", "DEGRADED", "CLOSED_RECOVERABLE"}
    BY Zenon DEF apply_failure_with_retry_check, path_entry_t, SameTransport
  <1> HIDE DEF q, p6
  <1> QED BY <1>4, <1>6, <1>7, <1>8 DEF GoodSlot, q

\* A created path binds the slot to its id and puts it in VALIDATING.
LEMMA ActivateOkIsGood ==
    ASSUME NEW p \in path_entry_t, p.attached, ~p.released, NEW k \in PathIds
    PROVE  LET q == activate_ok(p, k)
           IN  /\ GoodSlot(q) /\ SameTransport(p, q)
               /\ q.live /\ q.id = k /\ q.state = "VALIDATING"
  <1> DEFINE q == activate_ok(p, k)
             p1 == [p EXCEPT !.id = k]
             p2 == [p1 EXCEPT !.live = TRUE]
             p3 == [p2 EXCEPT !.after = 0]
             p4 == [p3 EXCEPT !.state = "VALIDATING"]
  <1>1. q = p4
    BY DEF activate_ok
  <1>2. p2 \in path_entry_t
    <2>1. p1 \in path_entry_t BY WriteField
    <2> QED BY <2>1, WriteField, Zenon
  <1>3. p4 \in path_entry_t
    <2>1. p3 \in path_entry_t BY <1>2, ZeroInRanges, WriteField, Zenon
    <2> QED BY <2>1, WriteField, Zenon DEF path_lifecycle_t
  <1>4. path_invariant_check(q)
    BY DEF activate_ok, path_entry_t, path_invariant_check
  <1>5. SameTransport(p, q) /\ q.live /\ q.id = k /\ q.state = "VALIDATING"
    BY Zenon DEF activate_ok, path_entry_t, SameTransport
  <1> HIDE DEF q, p4
  <1> QED BY <1>1, <1>3, <1>4, <1>5 DEF GoodSlot, q

\* A permanently refused path leaves the slot unbound in CLOSED_RECOVERABLE.
LEMMA PermanentFailIsGood ==
    ASSUME NEW p \in path_entry_t, p.attached, ~p.released
    PROVE  LET q == activate_permanent_fail(p)
           IN  /\ GoodSlot(q) /\ SameTransport(p, q)
               /\ ~q.live /\ q.state = "CLOSED_RECOVERABLE"
  <1> DEFINE q == activate_permanent_fail(p)
             p1 == [p EXCEPT !.live = FALSE]
             p2 == [p1 EXCEPT !.id = 0]
             p3 == [p2 EXCEPT !.stable = 0]
             p4 == [p3 EXCEPT !.after = 0]
             p5 == [p4 EXCEPT !.state = "CLOSED_RECOVERABLE"]
  <1>1. q = p5
    BY DEF activate_permanent_fail
  <1>2. p3 \in path_entry_t
    <2>1. p1 \in path_entry_t BY WriteField, Zenon
    <2>2. p2 \in path_entry_t BY <2>1, ZeroInRanges, WriteField, Zenon
    <2> QED BY <2>2, ZeroInRanges, WriteField, Zenon
  <1>3. p5 \in path_entry_t
    <2>1. p4 \in path_entry_t BY <1>2, ZeroInRanges, WriteField, Zenon
    <2> QED BY <2>1, WriteField, Zenon DEF path_lifecycle_t
  <1>4. path_invariant_check(q)
    BY DEF activate_permanent_fail, path_entry_t, path_invariant_check
  <1>5. SameTransport(p, q) /\ ~q.live /\ q.state = "CLOSED_RECOVERABLE"
    BY Zenon DEF activate_permanent_fail, path_entry_t, SameTransport
  <1> HIDE DEF q, p5
  <1> QED BY <1>1, <1>3, <1>4, <1>5 DEF GoodSlot, q

\* What an activation attempt makes of an attached slot that is not live: bound to
\* the new id and VALIDATING exactly when xquic created the path, not live else,
\* and never PENDING afterwards unless the attempt was a refused reactivation.
ActivationOutcome(p, result, k, q) ==
    /\ GoodSlot(q) /\ SameTransport(p, q)
    /\ result = "OK" => q.live /\ q.id = k /\ q.state = "VALIDATING"
    /\ result # "OK" => ~q.live
    /\ q.state # "PENDING"

\* A requested activation of a PENDING slot.
LEMMA ActivateRequestedOutcome ==
    ASSUME NEW p, GoodSlot(p), p.state = "PENDING",
           NEW result \in activate_result_t, NEW k \in PathIds
    PROVE  ActivationOutcome(p, result, k, path_on_activate_requested(p, result, k))
  <1>1. p \in path_entry_t /\ p.attached /\ ~p.released
    BY DEF GoodSlot, path_invariant_check
  <1>2. CASE result = "OK"
    BY <1>1, <1>2, ActivateOkIsGood DEF path_on_activate_requested, ActivationOutcome
  <1>3. CASE result = "TRANSIENT_FAIL"
    BY <1>1, <1>3, FailureIsGood DEF path_on_activate_requested, ActivationOutcome
  <1>4. CASE result = "PERMANENT_FAIL"
    BY <1>1, <1>4, PermanentFailIsGood DEF path_on_activate_requested, ActivationOutcome
  <1> QED BY <1>2, <1>3, <1>4 DEF activate_result_t

\* A retry of a CREATE_WAIT or DEGRADED slot.
LEMMA RetryTimerOutcome ==
    ASSUME NEW p, GoodSlot(p), p.state \in {"CREATE_WAIT", "DEGRADED"},
           NEW result \in activate_result_t, NEW k \in PathIds
    PROVE  ActivationOutcome(p, result, k, path_on_retry_timer(p, result, k))
  <1>1. p \in path_entry_t /\ p.attached /\ ~p.released
    BY DEF GoodSlot, path_invariant_check
  <1>2. CASE result = "OK"
    BY <1>1, <1>2, ActivateOkIsGood DEF path_on_retry_timer, ActivationOutcome
  <1>3. CASE result = "TRANSIENT_FAIL"
    BY <1>1, <1>3, FailureIsGood DEF path_on_retry_timer, ActivationOutcome
  <1>4. CASE result = "PERMANENT_FAIL"
    BY <1>1, <1>4, PermanentFailIsGood DEF path_on_retry_timer, ActivationOutcome
  <1> QED BY <1>2, <1>3, <1>4 DEF activate_result_t

\* A manual reactivation of an eligible slot.
LEMMA ReactivateOutcome ==
    ASSUME NEW p, GoodSlot(p), p.state \in {"CLOSED_RECOVERABLE", "CREATE_WAIT", "DEGRADED"},
           NEW result \in activate_result_t, NEW k \in PathIds
    PROVE  ActivationOutcome(p, result, k, path_on_manual_reactivate(p, result, k))
  <1>1. p \in path_entry_t /\ p.attached /\ ~p.released /\ ~p.live
    BY DEF GoodSlot, path_invariant_check
  <1>2. CASE result = "OK"
    BY <1>1, <1>2, ActivateOkIsGood DEF path_on_manual_reactivate, ActivationOutcome
  <1>3. CASE result # "OK"
    BY <1>1, <1>3, Zenon DEF path_on_manual_reactivate, ActivationOutcome, SameTransport
  <1> QED BY <1>2, <1>3

\* Freeing a dropped slot: the gate keeps the slot well formed, changes the state
\* only, and only from CLOSED_DROPPED.
LEMMA MaybeFreeIsGood ==
    ASSUME NEW p, GoodSlot(p)
    PROVE  LET q == maybe_transition_dropped_to_free(p)
           IN  /\ GoodSlot(q) /\ SameTransport(p, q)
               /\ q.live = p.live /\ q.id = p.id
               /\ q.state = p.state \/ (q.state = "CLOSED_FREE" /\ p.state = "CLOSED_DROPPED")
  <1> DEFINE q == [p EXCEPT !.state = "CLOSED_FREE"]
  <1>1. p \in path_entry_t
    BY DEF GoodSlot
  <1>2. CASE p.state = "CLOSED_DROPPED" /\ p.released /\ ~p.live /\ p.id = 0
    <2>1. q \in path_entry_t
      BY <1>1, WriteField, Zenon DEF path_lifecycle_t
    <2>2. /\ q.state = "CLOSED_FREE" /\ q.attached = p.attached /\ q.released = p.released
          /\ q.live = p.live /\ q.id = p.id /\ q.after = p.after /\ q.stable = p.stable
          /\ q.handle = p.handle
      BY <1>1 DEF path_entry_t
    <2>3. path_invariant_check(q)
      BY <1>2, <2>2 DEF GoodSlot, path_invariant_check
    <2>4. maybe_transition_dropped_to_free(p) = q
      BY <1>2 DEF maybe_transition_dropped_to_free
    <2> HIDE DEF q
    <2> QED BY <1>2, <2>1, <2>2, <2>3, <2>4, Zenon DEF GoodSlot, SameTransport
  <1>3. CASE ~(p.state = "CLOSED_DROPPED" /\ p.released /\ ~p.live /\ p.id = 0)
    BY <1>3 DEF maybe_transition_dropped_to_free, SameTransport
  <1> QED BY <1>2, <1>3

\* A validated slot stays bound to the path it was bound to.
LEMMA ValidationIsGood ==
    ASSUME NEW p, GoodSlot(p), NEW target \in {"ACTIVE", "STANDBY"}
    PROVE  LET q == path_on_validation_ok(p, target)
           IN  /\ GoodSlot(q) /\ SameTransport(p, q)
               /\ q.live = p.live /\ q.id = p.id
               /\ q.state = p.state \/ (p.state = "VALIDATING" /\ q.state = target)
  <1> DEFINE p1 == [p EXCEPT !.stable = 1]
             q == [p1 EXCEPT !.state = target]
  <1>1. p \in path_entry_t
    BY DEF GoodSlot
  <1>2. CASE p.state = "VALIDATING"
    <2>1. q \in path_entry_t
      <3>1. p1 \in path_entry_t BY <1>1, ZeroInRanges, WriteField
      <3> QED BY <3>1, WriteField, Zenon DEF path_lifecycle_t
    <2>2. /\ q.state = target /\ q.attached = p.attached /\ q.released = p.released
          /\ q.live = p.live /\ q.id = p.id /\ q.after = p.after /\ q.handle = p.handle
      BY <1>1 DEF path_entry_t
    <2>3. path_invariant_check(q)
      BY <1>2, <2>2 DEF GoodSlot, path_invariant_check
    <2>4. path_on_validation_ok(p, target) = q
      BY <1>2 DEF path_on_validation_ok
    <2> HIDE DEF q
    <2> QED BY <1>2, <2>1, <2>2, <2>3, <2>4 DEF GoodSlot, SameTransport
  <1>3. CASE p.state # "VALIDATING"
    BY <1>3 DEF path_on_validation_ok, SameTransport
  <1> QED BY <1>2, <1>3

\* Stability bookkeeping does not touch the state, the binding or the transport.
LEMMA ConfirmStableIsGood ==
    ASSUME NEW p, GoodSlot(p)
    PROVE  LET q == path_fsm_tick_confirm_stable(p)
           IN  /\ GoodSlot(q) /\ SameTransport(p, q)
               /\ q.live = p.live /\ q.id = p.id /\ q.state = p.state
  <1> DEFINE p1 == [p EXCEPT !.retries = 0]
             q == [p1 EXCEPT !.stable = 1]
             due == p.state \in {"ACTIVE", "STANDBY"} /\ p.live
                    /\ p.stable = 1 + PATH_STABLE_THRESHOLD
  <1>1. p \in path_entry_t
    BY DEF GoodSlot
  <1>2. CASE due
    <2>1. q \in path_entry_t
      <3>1. p1 \in path_entry_t BY <1>1, ZeroInRanges, WriteField
      <3> QED BY <3>1, ZeroInRanges, WriteField, Zenon
    <2>2. /\ q.state = p.state /\ q.attached = p.attached /\ q.released = p.released
          /\ q.live = p.live /\ q.id = p.id /\ q.after = p.after /\ q.handle = p.handle
      BY <1>1 DEF path_entry_t
    <2>3. path_invariant_check(q)
      BY <1>2, <2>2 DEF GoodSlot, path_invariant_check
    <2>4. path_fsm_tick_confirm_stable(p) = q
      BY <1>2 DEF path_fsm_tick_confirm_stable
    <2> HIDE DEF q
    <2> QED BY <1>2, <2>1, <2>2, <2>3, <2>4, Zenon DEF GoodSlot, SameTransport
  <1>3. CASE ~due
    BY <1>3 DEF path_fsm_tick_confirm_stable, SameTransport
  <1> QED BY <1>2, <1>3

\* Dropping or removing a path detaches the transport and keeps the binding until
\* xquic reports the path gone.
LEMMA DropIsGood ==
    ASSUME NEW p, GoodSlot(p)
    PROVE  /\ path_on_remove_api(p) = path_on_platform_drop(p)
           /\ LET q == path_on_platform_drop(p)
              IN  /\ GoodSlot(q)
                  /\ q.handle = p.handle /\ q.released = p.released
                  /\ q.live = p.live /\ q.id = p.id
                  /\ ~q.attached /\ q.state \in {"CLOSED_DROPPED", "CLOSED_FREE"}
                  /\ q.state = "CLOSED_FREE" => p.state = "CLOSED_FREE"
  <1> DEFINE p1 == [p EXCEPT !.attached = FALSE]
             p2 == [p1 EXCEPT !.after = 0]
             p3 == [p2 EXCEPT !.stable = 0]
             q == [p3 EXCEPT !.state = "CLOSED_DROPPED"]
             closed == p.state \in {"CLOSED_DROPPED", "CLOSED_FREE"}
  <1>1. p \in path_entry_t
    BY DEF GoodSlot
  <1>2. CASE ~closed
    <2>1. q \in path_entry_t
      <3>1. p1 \in path_entry_t BY <1>1, WriteField, Zenon
      <3>2. p2 \in path_entry_t BY <3>1, ZeroInRanges, WriteField, Zenon
      <3>3. p3 \in path_entry_t BY <3>2, ZeroInRanges, WriteField, Zenon
      <3> QED BY <3>3, WriteField, Zenon DEF path_lifecycle_t
    <2>2. /\ q.state = "CLOSED_DROPPED" /\ q.attached = FALSE /\ q.released = p.released
          /\ q.live = p.live /\ q.id = p.id /\ q.after = 0 /\ q.stable = 0
          /\ q.handle = p.handle
      BY <1>1 DEF path_entry_t
    <2>3. path_invariant_check(q)
      BY <2>2 DEF path_invariant_check
    <2>4. path_on_platform_drop(p) = q /\ path_on_remove_api(p) = q
      BY <1>2 DEF path_on_platform_drop, path_on_remove_api
    <2> HIDE DEF q
    <2> QED BY <2>1, <2>2, <2>3, <2>4 DEF GoodSlot
  <1>3. CASE closed
    BY <1>3 DEF path_on_platform_drop, path_on_remove_api, GoodSlot, path_invariant_check
  <1> QED BY <1>2, <1>3

\* Adding a path attaches a transport that is owed a release, in PENDING.
LEMMA AddIsGood ==
    ASSUME NEW p, GoodSlot(p), p.state = "CLOSED_FREE"
    PROVE  LET q == path_on_add(p)
           IN  /\ GoodSlot(q) /\ q.handle = p.handle
               /\ q.attached /\ ~q.released /\ ~q.live /\ q.state = "PENDING"
  <1> DEFINE p1 == [p EXCEPT !.attached = TRUE]
             p2 == [p1 EXCEPT !.released = FALSE]
             q == [p2 EXCEPT !.state = "PENDING"]
  <1>1. p \in path_entry_t
    BY DEF GoodSlot
  <1>2. q \in path_entry_t
    <2>1. p1 \in path_entry_t BY <1>1, WriteField, Zenon
    <2>2. p2 \in path_entry_t BY <2>1, WriteField, Zenon
    <2> QED BY <2>2, WriteField, Zenon DEF path_lifecycle_t
  <1>3. /\ q.state = "PENDING" /\ q.attached = TRUE /\ q.released = FALSE
        /\ q.live = p.live /\ q.id = p.id /\ q.after = p.after /\ q.stable = p.stable
        /\ q.handle = p.handle
    BY <1>1 DEF path_entry_t
  <1>4. path_invariant_check(q) /\ ~q.live
    BY <1>3 DEF GoodSlot, path_invariant_check
  <1>5. path_on_add(p) = q
    BY DEF path_on_add
  <1> HIDE DEF q
  <1> QED BY <1>2, <1>3, <1>4, <1>5 DEF GoodSlot

\* A connection reset unbinds every slot; an attached one is PENDING again.
LEMMA ResetIsGood ==
    ASSUME NEW p, GoodSlot(p)
    PROVE  LET q == path_on_conn_reset(p)
           IN  /\ GoodSlot(q) /\ SameTransport(p, q)
               /\ ~q.live
               /\ q.attached => q.state = "PENDING"
  <1> DEFINE p1 == [p EXCEPT !.live = FALSE]
             p2 == [p1 EXCEPT !.id = 0]
             p3 == [p2 EXCEPT !.after = 0]
             p4 == [p3 EXCEPT !.retries = 0]
             cleared == [p4 EXCEPT !.stable = 0]
             q == [cleared EXCEPT !.state = "PENDING"]
  <1>1. p \in path_entry_t
    BY DEF GoodSlot
  <1>2. cleared \in path_entry_t
    <2>1. p1 \in path_entry_t BY <1>1, WriteField, Zenon
    <2>2. p2 \in path_entry_t BY <2>1, ZeroInRanges, WriteField, Zenon
    <2>3. p3 \in path_entry_t BY <2>2, ZeroInRanges, WriteField, Zenon
    <2>4. p4 \in path_entry_t BY <2>3, ZeroInRanges, WriteField, Zenon
    <2> QED BY <2>4, ZeroInRanges, WriteField, Zenon
  <1>3. /\ cleared.state = p.state /\ cleared.attached = p.attached
        /\ cleared.released = p.released /\ cleared.live = FALSE /\ cleared.id = 0
        /\ cleared.after = 0 /\ cleared.stable = 0 /\ cleared.handle = p.handle
    BY <1>1 DEF path_entry_t
  <1>4. path_on_conn_reset(p) = IF cleared.attached THEN q
                                ELSE maybe_transition_dropped_to_free(cleared)
    BY DEF path_on_conn_reset
  <1> HIDE DEF cleared
  <1>5. CASE cleared.attached
    <2>1. q \in path_entry_t
      BY <1>2, WriteField, Zenon DEF path_lifecycle_t
    <2>2. /\ q.state = "PENDING" /\ q.attached = cleared.attached
          /\ q.released = cleared.released /\ q.live = cleared.live /\ q.id = cleared.id
          /\ q.after = cleared.after /\ q.stable = cleared.stable /\ q.handle = cleared.handle
      BY <1>2 DEF path_entry_t
    <2>3. ~p.released
      BY <1>1, <1>3, <1>5 DEF GoodSlot, path_invariant_check, path_entry_t, path_lifecycle_t
    <2>4. path_invariant_check(q)
      BY <1>3, <1>5, <2>2, <2>3 DEF path_invariant_check
    <2> HIDE DEF q
    <2> QED BY <1>3, <1>4, <1>5, <2>1, <2>2, <2>4, Zenon DEF GoodSlot, SameTransport
  <1>6. CASE ~cleared.attached
    <2>1. p.state \in {"CLOSED_DROPPED", "CLOSED_FREE"}
      BY <1>1, <1>3, <1>6 DEF GoodSlot, path_invariant_check, path_entry_t, path_lifecycle_t
    <2>2. path_invariant_check(cleared)
      BY <1>3, <1>6, <2>1 DEF GoodSlot, path_invariant_check
    <2>3. GoodSlot(cleared)
      BY <1>2, <2>2 DEF GoodSlot
    <2> QED BY <1>3, <1>4, <1>6, <2>3, MaybeFreeIsGood DEF SameTransport
  <1> QED BY <1>5, <1>6

\* Releasing the transport of a dropped slot.
LEMMA TransportReleasedIsGood ==
    ASSUME NEW p, GoodSlot(p), p.state = "CLOSED_DROPPED"
    PROVE  LET q == path_on_transport_released(p)
           IN  /\ GoodSlot(q)
               /\ q.handle = p.handle /\ ~q.attached /\ q.released
               /\ q.live = p.live /\ q.id = p.id
               /\ q.state \in {"CLOSED_DROPPED", "CLOSED_FREE"}
  <1> DEFINE q == [p EXCEPT !.released = TRUE]
  <1>1. p \in path_entry_t
    BY DEF GoodSlot
  <1>2. q \in path_entry_t
    BY <1>1, WriteField, Zenon
  <1>3. /\ q.state = p.state /\ q.attached = p.attached /\ q.released = TRUE
        /\ q.live = p.live /\ q.id = p.id /\ q.after = p.after /\ q.stable = p.stable
        /\ q.handle = p.handle
    BY <1>1 DEF path_entry_t
  <1>4. path_invariant_check(q) /\ ~q.attached
    BY <1>3 DEF GoodSlot, path_invariant_check
  <1>5. path_on_transport_released(p) = maybe_transition_dropped_to_free(q)
    BY DEF path_on_transport_released
  <1> HIDE DEF q
  <1>6. GoodSlot(q)
    BY <1>2, <1>4 DEF GoodSlot
  <1> QED BY <1>3, <1>4, <1>5, <1>6, MaybeFreeIsGood DEF SameTransport

\* xquic lost the path of a live slot: whatever the slot's state, it is unbound.
LEMMA RemovedIsGood ==
    ASSUME NEW p, GoodSlot(p), p.live
    PROVE  LET q == path_on_xquic_removed(p)
           IN  /\ GoodSlot(q) /\ SameTransport(p, q)
               /\ ~q.live /\ q.state # "PENDING"
  <1>1. p \in path_entry_t
        /\ p.state \in {"VALIDATING", "ACTIVE", "STANDBY", "CLOSED_DROPPED"}
    BY DEF GoodSlot, path_invariant_check, path_entry_t, path_lifecycle_t
  <1>2. CASE p.state # "CLOSED_DROPPED"
    <2>1. p.attached /\ ~p.released
      BY <1>1, <1>2 DEF GoodSlot, path_invariant_check
    <2>2. path_on_xquic_removed(p) = apply_failure_with_retry_check(
              p, IF p.state = "VALIDATING" THEN "CREATE_WAIT" ELSE "DEGRADED")
      BY <1>1, <1>2 DEF path_on_xquic_removed
    <2> QED BY <1>1, <2>1, <2>2, FailureIsGood
  <1>3. CASE p.state = "CLOSED_DROPPED"
    <2> DEFINE p1 == [p EXCEPT !.live = FALSE]
               q == [p1 EXCEPT !.id = 0]
    <2>1. q \in path_entry_t
      <3>1. p1 \in path_entry_t BY <1>1, WriteField, Zenon
      <3> QED BY <3>1, ZeroInRanges, WriteField, Zenon
    <2>2. /\ q.state = p.state /\ q.attached = p.attached /\ q.released = p.released
          /\ q.live = FALSE /\ q.id = 0 /\ q.after = p.after /\ q.stable = p.stable
          /\ q.handle = p.handle
      BY <1>1 DEF path_entry_t
    <2>3. path_invariant_check(q)
      BY <1>3, <2>2 DEF GoodSlot, path_invariant_check
    <2>4. path_on_xquic_removed(p) = maybe_transition_dropped_to_free(q)
      BY <1>3 DEF path_on_xquic_removed
    <2> HIDE DEF q
    <2>5. GoodSlot(q)
      BY <2>1, <2>3 DEF GoodSlot
    <2> QED BY <1>3, <2>2, <2>4, <2>5, MaybeFreeIsGood DEF SameTransport
  <1> QED BY <1>2, <1>3

-----------------------------------------------------------------------------
(* The flags. *)

\* Every step keeps the flags Boolean.
LEMMA FlagsStep ==
    ASSUME FlagsTypeOK, [Next]_vars
    PROVE  FlagsTypeOK'
  <1> USE DEF FlagsTypeOK, connVars, tableVars, mpVars, vars
  <1>1. CASE UNCHANGED vars
    BY <1>1
  <1>2. CASE mqvpn_client_add_path
    BY <1>2 DEF mqvpn_client_add_path
  <1>3. ASSUME NEW i \in Slots,
               \/ mqvpn_client_remove_path(i)
               \/ mqvpn_client_on_platform_path_dropped(i)
               \/ mqvpn_client_on_platform_path_released(i)
               \/ mqvpn_client_reactivate_path(i)
        PROVE  FlagsTypeOK'
    BY <1>3 DEF mqvpn_client_remove_path, mqvpn_client_on_platform_path_dropped,
        mqvpn_client_on_platform_path_released, mqvpn_client_reactivate_path
  <1>4. CASE cb_ready_to_create_path
    BY <1>4 DEF cb_ready_to_create_path
  <1>5. ASSUME NEW k \in PathIds, xqc_path_validated(k) \/ cb_path_removed(k)
        PROVE  FlagsTypeOK'
    BY <1>5 DEF xqc_path_validated, cb_path_removed
  <1>6. CASE mqvpn_client_connect \/ restart_ok
    BY <1>6, Zenon DEF mqvpn_client_connect, restart_ok, cli_start_connection
  <1>7. CASE mqvpn_client_connect_again \/ tick_reconnect
    BY <1>7, Zenon DEF mqvpn_client_connect_again, tick_reconnect, client_reset_paths_for_reconnect
  <1>8. CASE restart_failed \/ cli_report_cert_rejected
    BY <1>8, Zenon DEF restart_failed, cli_report_cert_rejected
  <1>9. CASE cb_h3_conn_handshake_finished
    BY <1>9, Zenon DEF cb_h3_conn_handshake_finished
  <1>10. CASE cli_connect_ip_scan_headers \/ cli_connect_ip_on_body
    BY <1>10, Zenon DEF cli_connect_ip_scan_headers, cli_connect_ip_on_body
  <1>11. CASE cli_check_ipv6_mtu \/ cli_connect_ip_on_request_close
    BY <1>11, Zenon DEF cli_check_ipv6_mtu, cli_connect_ip_on_request_close
  <1>12. CASE mqvpn_client_set_tun_active
    BY <1>12 DEF mqvpn_client_set_tun_active
  <1>13. CASE cb_h3_conn_close \/ mqvpn_client_disconnect
    BY <1>13, Zenon DEF cb_h3_conn_close, mqvpn_client_disconnect, conn_closed
  <1>14. CASE mqvpn_client_destroy
    BY <1>14, Zenon DEF mqvpn_client_destroy, conn_closed
  <1>15. CASE tick_handshake_watchdog \/ tick_path_recovery \/ Elapse
    BY <1>15, Zenon DEF tick_handshake_watchdog, tick_path_recovery, Elapse
  <1> QED
    BY <1>1, <1>2, <1>3, <1>4, <1>5, <1>6, <1>7, <1>8, <1>9, <1>10, <1>11, <1>12, <1>13,
       <1>14, <1>15
    DEF Next, Gone

-----------------------------------------------------------------------------
(* The connection: its state, the existence of c->conn and the retry timer. *)

Connected == {"CONNECTING", "AUTHENTICATING", "TUNNEL_READY", "ESTABLISHED"}

\* ConnMatchesState and ReconnectNeverStranded, strengthened: an open connection
\* belongs to one of the connected states, one that outlives them belongs to a
\* client that is shutting down, and a restart is under way only in RECONNECTING.
ConnInv ==
    /\ ConnMatchesState
    /\ ReconnectNeverStranded
    /\ conn = "open" => state \in Connected
    /\ conn # "null" /\ state \notin Connected => state = "CLOSED" /\ shutting_down
    /\ conn # "null" /\ stream # "none" => state \notin {"CONNECTING"}
    /\ in_connect => state = "RECONNECTING" /\ ~destroyed
    /\ destroyed => conn = "null"

\* The delay of the next attempt is within the ceiling, so the armed timer is set.
LEMMA ReconnectDelay ==
    /\ client_reconnect_delay \in 1 .. RECONNECT_BACKOFF_MAX
    /\ 1 + client_reconnect_delay \in 1 .. RECONNECT_BACKOFF_MAX + 1
  BY ClientAssumption DEF client_reconnect_delay

\* Arming the timer.
LEMMA ArmTimer ==
    ASSUME ConnTypeOK, client_arm_reconnect_timer
    PROVE  /\ reconnect_scheduled' \in 0 .. RECONNECT_BACKOFF_MAX + 1
           /\ reconnect_scheduled' # 0
           /\ reconnect_attempts' \in 0 .. MaxAttempts
  BY ReconnectDelay, ClientAssumption DEF client_arm_reconnect_timer, ConnTypeOK

\* The initial state.
LEMMA ConnInit == Init => ConnTypeOK /\ ConnInv
  BY ClientAssumption
  DEF Init, ConnTypeOK, ConnInv, ConnMatchesState, ReconnectNeverStranded, Connected,
      mqvpn_client_state_t

\* Every step preserves the types of the connection's variables and ConnInv.
LEMMA ConnStep ==
    ASSUME ConnTypeOK, ConnInv, [Next]_vars
    PROVE  ConnTypeOK' /\ ConnInv'
  <1> USE ClientAssumption
      DEF ConnTypeOK, ConnInv, ConnMatchesState, ReconnectNeverStranded, Connected,
          mqvpn_client_state_t, Idle, connVars
  <1>1. CASE UNCHANGED <<connVars, destroyed>>
    BY <1>1
  <1>2. CASE mqvpn_client_connect
    <2>1. /\ state' = "CONNECTING" /\ handshake_started' = 1 + HANDSHAKE_STALL_TIMEOUT
          /\ conn' = "open" /\ stream' = "none" /\ notified' = "no" /\ closed_calls' = 0
          /\ ~in_connect /\ ~destroyed
          /\ UNCHANGED <<in_connect, reconnect_scheduled, reconnect_attempts, destroyed>>
      BY <1>2, Zenon DEF mqvpn_client_connect, cli_start_connection, client_set_state
    <2> QED BY <2>1
  <1>3. CASE mqvpn_client_connect_again \/ tick_reconnect
    BY <1>3 DEF mqvpn_client_connect_again, tick_reconnect, client_reset_paths_for_reconnect
  <1>4. CASE restart_ok
    <2>1. /\ state' = "CONNECTING" /\ handshake_started' = 1 + HANDSHAKE_STALL_TIMEOUT
          /\ conn' = "open" /\ stream' = "none" /\ notified' = "no" /\ closed_calls' = 0
          /\ in_connect' = FALSE /\ ~destroyed
          /\ UNCHANGED <<reconnect_scheduled, reconnect_attempts, destroyed>>
      BY <1>4, Zenon DEF restart_ok, cli_start_connection, client_set_state
    <2> QED BY <2>1
  <1>5. CASE restart_failed
    BY <1>5, ArmTimer DEF restart_failed
  <1>6. CASE cli_report_cert_rejected
    BY <1>6 DEF cli_report_cert_rejected, cli_signal_connect_fail
  <1>7. CASE cb_h3_conn_handshake_finished
    BY <1>7 DEF cb_h3_conn_handshake_finished, client_set_state
  <1>8. CASE cli_connect_ip_scan_headers
    BY <1>8 DEF cli_connect_ip_scan_headers, cli_signal_connect_fail
  <1>9. CASE cli_connect_ip_on_body
    BY <1>9 DEF cli_connect_ip_on_body, client_set_state
  <1>10. CASE cli_check_ipv6_mtu
    BY <1>10 DEF cli_check_ipv6_mtu, cli_signal_connect_fail
  <1>11. CASE cli_connect_ip_on_request_close
    BY <1>11 DEF cli_connect_ip_on_request_close, cli_signal_connect_fail
  <1>12. CASE mqvpn_client_set_tun_active
    BY <1>12 DEF mqvpn_client_set_tun_active, client_set_state
  <1>13. CASE cb_h3_conn_close
    BY <1>13, ArmTimer DEF cb_h3_conn_close, conn_closed, client_set_state
  <1>14. CASE mqvpn_client_disconnect
    BY <1>14 DEF mqvpn_client_disconnect, conn_closed, client_set_state
  <1>15. CASE mqvpn_client_destroy
    BY <1>15 DEF mqvpn_client_destroy, conn_closed, client_set_state
  <1>16. CASE tick_handshake_watchdog
    BY <1>16 DEF tick_handshake_watchdog
  <1>17. CASE Elapse
    <2>1. /\ reconnect_scheduled' = count_down(reconnect_scheduled)
          /\ handshake_started' = count_down(handshake_started)
          /\ UNCHANGED <<state, conn, stream, notified, shutting_down, in_connect,
                         reconnect_attempts, closed_calls, destroyed>>
      BY <1>17, Zenon DEF Elapse
    <2> QED BY <2>1 DEF count_down
  <1> QED
    BY <1>1, <1>2, <1>3, <1>4, <1>5, <1>6, <1>7, <1>8, <1>9, <1>10, <1>11, <1>12, <1>13,
       <1>14, <1>15, <1>16, <1>17, Zenon
    DEF Next, vars, mqvpn_client_add_path, mqvpn_client_remove_path,
        mqvpn_client_on_platform_path_dropped, mqvpn_client_on_platform_path_released,
        mqvpn_client_reactivate_path, cb_ready_to_create_path, xqc_path_validated,
        cb_path_removed, tick_path_recovery, Gone
-----------------------------------------------------------------------------
(* What the application is told: tunnel_closed, and the changes of state. *)

\* TunnelClosedOnce and NoFailureOnLiveTunnel, strengthened: a tunnel that is up
\* has its request stream open.
SignalInv ==
    /\ TunnelClosedOnce
    /\ NoFailureOnLiveTunnel
    /\ tunnel_ok => stream = "open" /\ conn # "null"

\* The initial state.
LEMMA SignalInit == Init => SignalInv
  BY DEF Init, SignalInv, TunnelClosedOnce, NoFailureOnLiveTunnel

\* Every step preserves SignalInv.
LEMMA SignalStep ==
    ASSUME ConnTypeOK, ConnInv, SignalInv, [Next]_vars
    PROVE  SignalInv'
  <1> USE DEF ConnTypeOK, ConnInv, ConnMatchesState, Connected, mqvpn_client_state_t,
              SignalInv, TunnelClosedOnce, NoFailureOnLiveTunnel, Idle, connVars,
              cli_signal_connect_fail
  <1>1. CASE UNCHANGED <<connVars, destroyed>>
    BY <1>1
  <1>2. CASE mqvpn_client_connect \/ restart_ok
    <2>1. /\ conn' = "open" /\ stream' = "none" /\ notified' = "no" /\ closed_calls' = 0
          /\ tunnel_ok' = FALSE
      BY <1>2, Zenon DEF mqvpn_client_connect, restart_ok, cli_start_connection
    <2> QED BY <2>1
  <1>3. CASE mqvpn_client_connect_again \/ tick_reconnect
    BY <1>3 DEF mqvpn_client_connect_again, tick_reconnect, client_reset_paths_for_reconnect
  <1>4. CASE restart_failed
    BY <1>4 DEF restart_failed
  <1>5. CASE cli_report_cert_rejected
    BY <1>5 DEF cli_report_cert_rejected
  <1>6. CASE cb_h3_conn_handshake_finished
    <2>1. state = "CONNECTING" /\ conn = "open" /\ stream = "none" /\ ~tunnel_ok
      BY <1>6 DEF cb_h3_conn_handshake_finished
    <2>2. UNCHANGED <<conn, tunnel_ok, notified, closed_calls, destroyed>>
      BY <1>6 DEF cb_h3_conn_handshake_finished
    <2> QED BY <2>1, <2>2
  <1>7. CASE cli_connect_ip_scan_headers
    BY <1>7 DEF cli_connect_ip_scan_headers
  <1>8. CASE cli_connect_ip_on_body
    <2>1. /\ conn = "open"
          /\ UNCHANGED <<conn, stream, tunnel_ok, notified, closed_calls, destroyed>>
      BY <1>8 DEF cli_connect_ip_on_body
    <2> QED BY <2>1
  <1>9. CASE cli_check_ipv6_mtu
    BY <1>9 DEF cli_check_ipv6_mtu
  <1>10. CASE cli_connect_ip_on_request_close
    BY <1>10 DEF cli_connect_ip_on_request_close
  <1>11. CASE mqvpn_client_set_tun_active
    BY <1>11 DEF mqvpn_client_set_tun_active, client_set_state
  <1>12. CASE cb_h3_conn_close
    BY <1>12 DEF cb_h3_conn_close, conn_closed
  <1>13. CASE mqvpn_client_disconnect
    BY <1>13 DEF mqvpn_client_disconnect, conn_closed, client_set_state
  <1>14. CASE mqvpn_client_destroy
    BY <1>14 DEF mqvpn_client_destroy, conn_closed, client_set_state
  <1>15. CASE tick_handshake_watchdog
    BY <1>15 DEF tick_handshake_watchdog
  <1>16. CASE Elapse
    <2>1. UNCHANGED <<state, conn, stream, tunnel_ok, notified, closed_calls, destroyed>>
      BY <1>16, Zenon DEF Elapse
    <2> QED BY <2>1
  <1> QED
    BY <1>1, <1>2, <1>3, <1>4, <1>5, <1>6, <1>7, <1>8, <1>9, <1>10, <1>11, <1>12, <1>13,
       <1>14, <1>15, <1>16, Zenon
    DEF Next, vars, mqvpn_client_add_path, mqvpn_client_remove_path,
        mqvpn_client_on_platform_path_dropped, mqvpn_client_on_platform_path_released,
        mqvpn_client_reactivate_path, cb_ready_to_create_path, xqc_path_validated,
        cb_path_removed, tick_path_recovery, Gone

\* Every step makes a change of state that client_set_state's table allows.
LEMMA TransitionStep ==
    ASSUME ConnTypeOK, ConnInv, [Next]_vars
    PROVE  state' # state => <<state, state'>> \in state_transitions
  <1> USE DEF ConnTypeOK, ConnInv, ConnMatchesState, Connected, mqvpn_client_state_t, Idle,
              state_transitions, client_set_state
  <1>1. CASE UNCHANGED state
    BY <1>1
  <1>2. CASE mqvpn_client_connect \/ restart_ok
    BY <1>2 DEF mqvpn_client_connect, restart_ok
  <1>3. CASE cb_h3_conn_handshake_finished
    BY <1>3 DEF cb_h3_conn_handshake_finished
  <1>4. CASE cli_connect_ip_on_body
    <2>1. conn = "open" /\ stream = "open" /\ state \notin {"ESTABLISHED", "TUNNEL_READY"}
          /\ state' = "TUNNEL_READY"
      BY <1>4 DEF cli_connect_ip_on_body
    <2> QED BY <2>1
  <1>5. CASE mqvpn_client_set_tun_active
    BY <1>5 DEF mqvpn_client_set_tun_active
  <1>6. CASE cb_h3_conn_close
    BY <1>6 DEF cb_h3_conn_close
  <1>7. CASE mqvpn_client_disconnect
    BY <1>7 DEF mqvpn_client_disconnect
  <1>8. CASE tick_handshake_watchdog
    BY <1>8 DEF tick_handshake_watchdog
  <1>9. CASE mqvpn_client_destroy
    BY <1>9 DEF mqvpn_client_destroy
  <1> QED
    BY <1>1, <1>2, <1>3, <1>4, <1>5, <1>6, <1>7, <1>8, <1>9, Zenon
    DEF Next, vars, connVars, mqvpn_client_add_path, mqvpn_client_remove_path,
        mqvpn_client_on_platform_path_dropped, mqvpn_client_on_platform_path_released,
        mqvpn_client_reactivate_path, cb_ready_to_create_path, xqc_path_validated,
        cb_path_removed, tick_path_recovery, Gone, mqvpn_client_connect_again, tick_reconnect,
        client_reset_paths_for_reconnect, restart_failed, cli_report_cert_rejected,
        cli_connect_ip_scan_headers, cli_check_ipv6_mtu, cli_connect_ip_on_request_close,
        Elapse

-----------------------------------------------------------------------------
(* The path table and its bindings to xquic's paths. *)

\* Every slot is well formed.
GoodTable(ps) == ps \in [Slots -> path_entry_t] /\ \A i \in Slots : GoodSlot(ps[i])

\* The bindings of the table ps are a matching with the paths of x.
Matching(ps, x) ==
    /\ \A i \in Slots : ps[i].live => x[ps[i].id] # "none"
    /\ \A i, j \in Slots : ps[i].live /\ ps[j].live /\ ps[i].id = ps[j].id => i = j
    /\ \A k \in PathIds \ {0} :
           x[k] # "none" => \E i \in Slots : ps[i].live /\ ps[i].id = k

\* No slot is bound and every attached one waits to be activated.
Fresh(ps) == \A i \in Slots : ~ps[i].live /\ (ps[i].attached => ps[i].state = "PENDING")

\* Slots past n_paths were never touched.
Unused(ps, n) == \A i \in Slots : i >= n => ps[i] = path_entry_init

XqcType == [PathIds -> {"none", "validating", "active", "closing"}]

\* The conditions and effects of xqc_conn_create_path on the slots of A: the table
\* ps becomes qs, the paths x become y.
Activation(A, ps, qs, x, y, result, new_id) ==
    /\ result \in [A -> activate_result_t] /\ new_id \in [A -> PathIds \ {0}]
    /\ \A i \in A : result[i] = "OK" =>
           /\ x[new_id[i]] = "none"
           /\ \A j \in A : result[j] = "OK" /\ new_id[i] = new_id[j] => i = j
    /\ qs \in [Slots -> path_entry_t]
    /\ \A i \in A : ActivationOutcome(ps[i], result[i], new_id[i], qs[i])
    /\ \A i \in Slots \ A : qs[i] = ps[i]
    /\ y = [k \in PathIds |->
               IF \E i \in A : result[i] = "OK" /\ new_id[i] = k THEN "validating" ELSE x[k]]

\* Activating unbound slots keeps the table well formed and the bindings a matching.
LEMMA ActivationKeepsMatching ==
    ASSUME NEW A \in SUBSET Slots, NEW ps, NEW qs, NEW x \in XqcType, NEW y,
           NEW result, NEW new_id, GoodTable(ps), \A i \in A : ~ps[i].live,
           Activation(A, ps, qs, x, y, result, new_id)
    PROVE  /\ GoodTable(qs) /\ y \in XqcType
           /\ Matching(ps, x) => Matching(qs, y)
  <1>1. \A i \in A : /\ GoodSlot(qs[i])
                     /\ result[i] = "OK" => qs[i].live /\ qs[i].id = new_id[i]
                     /\ result[i] # "OK" => ~qs[i].live
    BY DEF Activation, ActivationOutcome
  <1>2. \A i \in Slots \ A : qs[i] = ps[i]
    BY DEF Activation
  <1>3. GoodTable(qs)
    BY <1>1, <1>2 DEF GoodTable, Activation
  <1>4. y \in XqcType
    BY DEF XqcType, Activation
  <1>5. ASSUME Matching(ps, x) PROVE Matching(qs, y)
    <2>1. \A i \in A : new_id[i] \in PathIds \ {0}
      BY DEF Activation
    <2>2. \A i \in Slots : ps[i].id \in PathIds /\ qs[i].id \in PathIds
      BY <1>3 DEF GoodTable, path_entry_t
    <2>3. \A k \in PathIds : y[k] = IF \E i \in A : result[i] = "OK" /\ new_id[i] = k
                                    THEN "validating" ELSE x[k]
      BY DEF Activation
    <2>4. \A i \in A : result[i] = "OK" =>
             /\ x[new_id[i]] = "none"
             /\ \A j \in A : result[j] = "OK" /\ new_id[i] = new_id[j] => i = j
      BY DEF Activation
    <2>5. \A i \in Slots : qs[i].live => y[qs[i].id] # "none"
      <3> SUFFICES ASSUME NEW i \in Slots, qs[i].live PROVE y[qs[i].id] # "none"
        OBVIOUS
      <3>1. CASE i \in A
        BY <1>1, <2>1, <2>3, <3>1
      <3>2. CASE i \notin A
        BY <1>2, <1>5, <2>2, <2>3, <3>2 DEF Matching
      <3> QED BY <3>1, <3>2
    <2>6. ASSUME NEW i \in Slots, NEW j \in Slots, qs[i].live, qs[j].live,
                 qs[i].id = qs[j].id
          PROVE  i = j
      <3>1. ASSUME NEW a \in A, NEW b \in Slots \ A, qs[a].live, qs[b].live,
                   qs[a].id = qs[b].id
            PROVE  FALSE
        BY <1>1, <1>2, <1>5, <2>4, <3>1 DEF Matching
      <3>2. CASE i \in A /\ j \in A
        BY <1>1, <2>4, <2>6, <3>2
      <3>3. CASE i \notin A /\ j \notin A
        BY <1>2, <1>5, <2>6, <3>3 DEF Matching
      <3> QED BY <2>6, <3>1, <3>2, <3>3
    <2>7. ASSUME NEW k \in PathIds \ {0}, y[k] # "none"
          PROVE  \E i \in Slots : qs[i].live /\ qs[i].id = k
      <3>1. CASE \E i \in A : result[i] = "OK" /\ new_id[i] = k
        BY <1>1, <3>1
      <3>2. CASE x[k] # "none"
        <4>1. PICK i \in Slots : ps[i].live /\ ps[i].id = k
          BY <1>5, <3>2 DEF Matching
        <4>2. i \notin A
          BY <4>1
        <4> QED BY <1>2, <4>1, <4>2
      <3> QED BY <2>3, <2>7, <3>1, <3>2
    <2> QED BY <2>5, <2>6, <2>7 DEF Matching
  <1> QED BY <1>3, <1>4, <1>5

\* activate_pending_paths over a well-formed table, when cond lets it run: every
\* PENDING slot leaves that state, no other slot is touched.
LEMMA ActivatePending ==
    ASSUME NEW cond, NEW ps, GoodTable(ps), xqc \in XqcType, ActivateIf(cond, ps)
    PROVE  /\ GoodTable(paths') /\ xqc' \in XqcType
           /\ Matching(ps, xqc) => Matching(paths', xqc')
           /\ \A i \in Slots : /\ SameTransport(ps[i], paths'[i])
                               /\ ps[i].state # "PENDING" => paths'[i] = ps[i]
                               /\ cond => paths'[i].state # "PENDING"
           /\ ~cond => paths' = ps
  <1>1. CASE ~cond
    BY <1>1 DEF ActivateIf, SameTransport
  <1>2. CASE cond
    <2> DEFINE A == {i \in Slots : ps[i].state = "PENDING" /\ ~ps[i].live}
    <2>1. PICK result \in [A -> activate_result_t], new_id \in [A -> PathIds \ {0}] :
            LET created == {i \in A : result[i] = "OK"}
            IN  /\ created # {} => conn = "open"
                /\ \A i \in created :
                     /\ xqc[new_id[i]] = "none"
                     /\ \A j \in created : new_id[i] = new_id[j] => i = j
                /\ paths' = [i \in Slots |->
                               IF i \in A
                               THEN path_on_activate_requested(ps[i], result[i], new_id[i])
                               ELSE ps[i]]
                /\ xqc' = [k \in PathIds |->
                             IF \E i \in created : new_id[i] = k THEN "validating" ELSE xqc[k]]
      BY <1>2, Zenon DEF ActivateIf, activate_pending_paths, xqc_conn_create_path
    <2>2. \A i \in A : /\ ActivationOutcome(ps[i], result[i], new_id[i], paths'[i])
                       /\ ~ps[i].live
      <3> SUFFICES ASSUME NEW i \in A
                   PROVE  ActivationOutcome(ps[i], result[i], new_id[i], paths'[i])
        OBVIOUS
      <3>1. GoodSlot(ps[i]) /\ ps[i].state = "PENDING"
        BY DEF GoodTable
      <3>2. result[i] \in activate_result_t /\ new_id[i] \in PathIds
        OBVIOUS
      <3>3. paths'[i] = path_on_activate_requested(ps[i], result[i], new_id[i])
        BY <2>1
      <3> HIDE DEF A
      <3> QED BY <3>1, <3>2, <3>3, ActivateRequestedOutcome
    <2>3. \A i \in Slots \ A : paths'[i] = ps[i]
      BY <2>1
    <2>4. \A i \in Slots : paths'[i] \in path_entry_t
      BY <2>2, <2>3 DEF GoodTable, ActivationOutcome, GoodSlot
    <2>5. Activation(A, ps, paths', xqc, xqc', result, new_id)
      <3>1. paths' \in [Slots -> path_entry_t]
        BY <2>1, <2>4
      <3>2. \A i \in A : result[i] = "OK" =>
               /\ xqc[new_id[i]] = "none"
               /\ \A j \in A : result[j] = "OK" /\ new_id[i] = new_id[j] => i = j
        BY <2>1
      <3>3. xqc' = [k \in PathIds |->
                      IF \E i \in A : result[i] = "OK" /\ new_id[i] = k
                      THEN "validating" ELSE xqc[k]]
        BY <2>1
      <3> HIDE DEF A
      <3> QED BY <2>2, <2>3, <3>1, <3>2, <3>3 DEF Activation
    <2>6. \A i \in Slots : ps[i].state = "PENDING" => i \in A
      BY DEF GoodTable, GoodSlot, path_invariant_check
    <2>7. \A i \in Slots : i \in A => ps[i].state = "PENDING"
      OBVIOUS
    <2> HIDE DEF A
    <2>8. /\ GoodTable(paths') /\ xqc' \in XqcType
          /\ Matching(ps, xqc) => Matching(paths', xqc')
      <3>1. A \in SUBSET Slots
        BY DEF A
      <3> QED BY <2>2, <2>5, <3>1, ActivationKeepsMatching
    <2>9. \A i \in Slots : /\ SameTransport(ps[i], paths'[i])
                           /\ ps[i].state # "PENDING" => paths'[i] = ps[i]
                           /\ paths'[i].state # "PENDING"
      BY <2>2, <2>3, <2>6, <2>7 DEF ActivationOutcome, SameTransport
    <2> QED BY <1>2, <2>8, <2>9
  <1> QED BY <1>1, <1>2

\* What a slot that holds no path looks like.
LEMMA UnusedSlot ==
    /\ path_entry_init.state = "CLOSED_FREE" /\ path_entry_init.live = FALSE
    /\ path_entry_init.attached = FALSE /\ path_entry_init.released = TRUE
    /\ path_entry_init.after = 0 /\ path_entry_init.stable = 0
    /\ path_entry_init.handle = 0 /\ path_entry_init.id = 0
  BY DEF path_entry_init

\* One tick of the clock keeps a slot well formed; only its timers move.
LEMMA ElapseIsGood ==
    ASSUME NEW p, GoodSlot(p), NEW r,
           r = [p EXCEPT !.after  = count_down(@),
                         !.stable = IF @ \in 1 .. PATH_STABLE_THRESHOLD
                                    THEN @ + 1 ELSE @]
    PROVE  /\ GoodSlot(r) /\ SameTransport(p, r)
           /\ r.live = p.live /\ r.id = p.id /\ r.state = p.state
           /\ p.after = 0 /\ p.stable = 0 => r = p
  <1> DEFINE a == count_down(p.after)
             s == IF p.stable \in 1 .. PATH_STABLE_THRESHOLD THEN p.stable + 1 ELSE p.stable
             p1 == [p EXCEPT !.after = a]
             q == [p1 EXCEPT !.stable = s]
  <1>1. p \in path_entry_t
    BY DEF GoodSlot
  <1>2. a \in AfterRange /\ s \in StableRange /\ (a = 0 <=> p.after = 0)
        /\ (s = 0 <=> p.stable = 0)
    BY <1>1, PathTimersAssumption DEF path_entry_t, AfterRange, StableRange, count_down
  <1>3. r = q
    BY <1>1 DEF path_entry_t
  <1> HIDE DEF a, s
  <1>4. q \in path_entry_t
    <2>1. p1 \in path_entry_t BY <1>1, <1>2, WriteField
    <2> QED BY <2>1, <1>2, WriteField, Zenon
  <1>5. /\ q.state = p.state /\ q.attached = p.attached /\ q.released = p.released
        /\ q.live = p.live /\ q.id = p.id /\ q.after = a /\ q.stable = s
        /\ q.handle = p.handle
    BY <1>1 DEF path_entry_t
  <1>6. path_invariant_check(q)
    BY <1>2, <1>5 DEF GoodSlot, path_invariant_check
  <1>7. ASSUME p.after = 0, p.stable = 0 PROVE q = p
    <2>1. p1 = p
      BY <1>1, <1>2, <1>7 DEF path_entry_t
    <2> QED BY <1>1, <1>2, <1>7, <2>1, Zenon DEF path_entry_t
  <1> HIDE DEF q
  <1> QED BY <1>3, <1>4, <1>5, <1>6, <1>7 DEF GoodSlot, SameTransport

\* cli_start_connection's direct write to the primary slot, which is PENDING.
LEMMA BootstrapIsGood ==
    ASSUME NEW p, GoodSlot(p), p.state = "PENDING", NEW q,
           q = [p EXCEPT !.id = 0, !.live = TRUE, !.state = "VALIDATING"]
    PROVE  /\ GoodSlot(q) /\ SameTransport(p, q)
           /\ q.live /\ q.id = 0 /\ q.state = "VALIDATING"
  <1> DEFINE p1 == [p EXCEPT !.id = 0]
             p2 == [p1 EXCEPT !.live = TRUE]
             p3 == [p2 EXCEPT !.state = "VALIDATING"]
  <1>1. p \in path_entry_t
    BY DEF GoodSlot
  <1>2. q = p3
    OBVIOUS
  <1>3. p3 \in path_entry_t
    <2>1. p1 \in path_entry_t BY <1>1, ZeroInRanges, WriteField
    <2>2. p2 \in path_entry_t BY <2>1, WriteField, Zenon
    <2> QED BY <2>2, WriteField, Zenon DEF path_lifecycle_t
  <1>4. /\ q.state = "VALIDATING" /\ q.attached = p.attached /\ q.released = p.released
        /\ q.live = TRUE /\ q.id = 0 /\ q.after = p.after /\ q.stable = p.stable
        /\ q.handle = p.handle
    BY <1>1 DEF path_entry_t
  <1>5. path_invariant_check(q)
    BY <1>4 DEF GoodSlot, path_invariant_check
  <1> HIDE DEF p3
  <1> QED BY <1>2, <1>3, <1>4, <1>5 DEF GoodSlot, SameTransport

\* Bindings that do not change still match paths that are the same ones.
LEMMA MatchingStable ==
    ASSUME NEW ps, NEW qs, NEW x, NEW y, GoodTable(ps), Matching(ps, x),
           \A i \in Slots : (qs[i].live <=> ps[i].live) /\ qs[i].id = ps[i].id,
           \A k \in PathIds : x[k] = "none" <=> y[k] = "none"
    PROVE  Matching(qs, y)
  BY DEF Matching, GoodTable, path_entry_t

\* The inductive invariant of the table.  Matching only speaks of a connection
\* that exists: closing one leaves stale bindings behind, which the reset before
\* the next attempt clears.
TableInv ==
    /\ TableTypeOK
    /\ GoodTable(paths)
    /\ Unused(paths, n_paths)
    /\ conn # "null" => Matching(paths, xqc)
    /\ (state = "IDLE" \/ in_connect) /\ ~destroyed => Fresh(paths)
    /\ state = "IDLE" \/ in_connect => ~multipath_ready
    /\ conn # "null" /\ multipath_ready /\ Multipath /\ ~hold_extra_paths =>
           \A i \in Slots : paths[i].state # "PENDING"

\* No transport changes slots or is released.
KeepsHandles ==
    /\ \A i \in Slots : paths'[i].handle = paths[i].handle
                        /\ (paths'[i].released <=> paths[i].released)
    /\ UNCHANGED <<n_paths, next_path_handle, releases>>

\* No transport changes slots, is detached or is released.
KeepsTransports ==
    /\ KeepsHandles
    /\ \A i \in Slots : paths'[i].attached <=> paths[i].attached

\* The transport of slot i is detached, if it was not before, and nothing else.
DetachesTransport(i) ==
    /\ KeepsHandles
    /\ \A j \in Slots : paths'[j].attached <=> paths[j].attached /\ j # i

\* The slot a new path gets is CLOSED_FREE, and in use afterwards.
LEMMA SlotForAddIsFree ==
    ASSUME TableInv, NEW i \in Slots, SlotForAdd(i)
    PROVE  /\ paths[i].state = "CLOSED_FREE" /\ i <= n_paths
           /\ i = n_paths => n_paths + 1 \in 0 .. MQVPN_MAX_PATHS
  <1>1. CASE i \in Used /\ paths[i].state = "CLOSED_FREE"
    BY <1>1, ClientAssumption DEF TableInv, TableTypeOK, Used, Slots
  <1>2. CASE i = n_paths /\ n_paths < MQVPN_MAX_PATHS
    <2>1. paths[i] = path_entry_init
      BY <1>2, ClientAssumption DEF TableInv, TableTypeOK, Unused, Slots
    <2>2. paths[i].state = "CLOSED_FREE"
      BY <2>1, UnusedSlot, Zenon
    <2> QED BY <1>2, <2>2, ClientAssumption DEF TableInv, TableTypeOK
  <1> QED BY <1>1, <1>2 DEF SlotForAdd

\* What mqvpn_client_add_path does to the table: slot i becomes q, PENDING and owed
\* a release, before the activation.
LEMMA AddPath ==
    ASSUME TableInv, mqvpn_client_add_path
    PROVE  \E i \in Slots, q \in path_entry_t :
              /\ paths[i].state = "CLOSED_FREE" /\ i <= n_paths
              /\ n_paths' = (IF i = n_paths THEN n_paths + 1 ELSE n_paths)
              /\ n_paths' \in 0 .. MQVPN_MAX_PATHS
              /\ GoodSlot(q) /\ q.handle = next_path_handle
              /\ q.attached /\ ~q.released /\ ~q.live /\ q.state = "PENDING"
              /\ ActivateIf(multipath_ready /\ Multipath /\ conn # "null" /\ ~hold_extra_paths,
                            [paths EXCEPT ![i] = q])
  <1>1. PICK i \in Slots :
            /\ SlotForAdd(i)
            /\ n_paths' = IF i = n_paths THEN n_paths + 1 ELSE n_paths
            /\ ActivateIf(multipath_ready /\ Multipath /\ conn # "null" /\ ~hold_extra_paths,
                          [paths EXCEPT ![i] = path_on_add(
                              [path_entry_init EXCEPT !.handle = next_path_handle])])
    BY Zenon DEF mqvpn_client_add_path
  <1> DEFINE p == [path_entry_init EXCEPT !.handle = next_path_handle]
             q == path_on_add(p)
  <1>2. next_path_handle \in 0 .. MaxHandle
    BY DEF mqvpn_client_add_path, TableInv, TableTypeOK
  <1>3. GoodSlot(p) /\ p.state = "CLOSED_FREE" /\ p.handle = next_path_handle
    BY <1>2, InitIsGood
  <1> HIDE DEF p
  <1>4. /\ GoodSlot(q) /\ q.handle = next_path_handle
        /\ q.attached /\ ~q.released /\ ~q.live /\ q.state = "PENDING"
    BY <1>3, AddIsGood
  <1>5. q \in path_entry_t
    BY <1>4 DEF GoodSlot
  <1>6. paths[i].state = "CLOSED_FREE" /\ i <= n_paths /\ n_paths' \in 0 .. MQVPN_MAX_PATHS
    BY <1>1, SlotForAddIsFree DEF TableInv, TableTypeOK
  <1>7. ActivateIf(multipath_ready /\ Multipath /\ conn # "null" /\ ~hold_extra_paths,
                   [paths EXCEPT ![i] = q])
    BY <1>1 DEF p
  <1> HIDE DEF q
  <1> QED BY <1>1, <1>4, <1>5, <1>6, <1>7

\* mqvpn_client_add_path preserves the invariant of the table.
LEMMA AddPathStep ==
    ASSUME TableInv, ConnInv, mqvpn_client_add_path
    PROVE  TableInv'
  <1> DEFINE cond == multipath_ready /\ Multipath /\ conn # "null" /\ ~hold_extra_paths
  <1>1. PICK i \in Slots, q \in path_entry_t :
              /\ paths[i].state = "CLOSED_FREE" /\ i <= n_paths
              /\ n_paths' = (IF i = n_paths THEN n_paths + 1 ELSE n_paths)
              /\ n_paths' \in 0 .. MQVPN_MAX_PATHS
              /\ GoodSlot(q) /\ q.handle = next_path_handle
              /\ q.attached /\ ~q.released /\ ~q.live /\ q.state = "PENDING"
              /\ ActivateIf(cond, [paths EXCEPT ![i] = q])
    BY AddPath, Zenon
  <1> DEFINE ps == [paths EXCEPT ![i] = q]
  <1>2. /\ next_path_handle <= MaxHandle /\ next_path_handle' = next_path_handle + 1
        /\ UNCHANGED <<connVars, mpVars, destroyed, releases>>
    BY DEF mqvpn_client_add_path
  <1>3. \A j \in Slots : ps[j] = IF j = i THEN q ELSE paths[j]
    BY DEF TableInv, GoodTable
  <1>4. GoodTable(ps)
    BY <1>1, <1>3 DEF TableInv, GoodTable
  <1>5. ~paths[i].live
    BY <1>1 DEF TableInv, GoodTable, GoodSlot, path_invariant_check
  <1>6. Matching(paths, xqc) => Matching(ps, xqc)
    BY <1>1, <1>3, <1>5 DEF Matching
  <1>7. xqc \in XqcType
    BY DEF TableInv, TableTypeOK, XqcType
  <1>a. ActivateIf(cond, ps)
    BY <1>1
  <1> HIDE DEF ps, cond
  <1>8. /\ GoodTable(paths') /\ xqc' \in XqcType
        /\ Matching(ps, xqc) => Matching(paths', xqc')
        /\ \A j \in Slots : /\ SameTransport(ps[j], paths'[j])
                            /\ ps[j].state # "PENDING" => paths'[j] = ps[j]
                            /\ cond => paths'[j].state # "PENDING"
        /\ ~cond => paths' = ps
    BY <1>4, <1>7, <1>a, ActivatePending
  <1>9. TableTypeOK'
    BY <1>1, <1>2, <1>8, PathBoundsAssumption
    DEF TableInv, TableTypeOK, GoodTable, XqcType, mpVars
  <1>10. Unused(paths', n_paths')
    <2> SUFFICES ASSUME NEW j \in Slots, j >= n_paths' PROVE paths'[j] = path_entry_init
      BY DEF Unused
    <2>1. j # i /\ j >= n_paths
      BY <1>1, ClientAssumption DEF Slots, TableInv, TableTypeOK
    <2>2. ps[j] = path_entry_init
      BY <1>3, <2>1 DEF TableInv, Unused
    <2> QED BY <1>8, <2>2, UnusedSlot, Zenon
  <1>11. (conn # "null" => Matching(paths, xqc))'
    BY <1>2, <1>6, <1>8, Zenon DEF TableInv, connVars
  <1>12. ((state = "IDLE" \/ in_connect) /\ ~destroyed => Fresh(paths))'
    <2> SUFFICES ASSUME state = "IDLE" \/ in_connect, ~destroyed PROVE Fresh(paths')
      BY <1>2 DEF connVars
    <2>1. ~cond /\ Fresh(paths)
      BY DEF cond, ConnInv, ConnMatchesState, TableInv
    <2> QED BY <1>1, <1>3, <1>8, <2>1, Zenon DEF Fresh
  <1>13. (conn # "null" /\ multipath_ready /\ Multipath /\ ~hold_extra_paths =>
              \A j \in Slots : paths[j].state # "PENDING")'
    BY <1>2, <1>8 DEF cond, connVars, mpVars
  <1>14. (state = "IDLE" \/ in_connect => ~multipath_ready)'
    BY <1>2 DEF TableInv, connVars, mpVars
  <1> QED BY <1>8, <1>9, <1>10, <1>11, <1>12, <1>13, <1>14 DEF TableInv

\* A step that binds and unbinds no slot, starts no connection, attaches nothing and
\* leaves the hold in place preserves the invariant of the table.
LEMMA QuietStep ==
    ASSUME TableInv,
           paths' \in [Slots -> path_entry_t],
           \A i \in Slots : /\ GoodSlot(paths'[i])
                            /\ paths'[i].live <=> paths[i].live
                            /\ paths'[i].id = paths[i].id
                            /\ paths'[i].state = "PENDING" => paths[i].state = "PENDING"
                            /\ paths'[i].attached /\ paths[i].state = "PENDING" =>
                                   paths'[i].state = "PENDING"
                            /\ paths'[i].attached => paths[i].attached
                            /\ i >= n_paths => paths'[i] = paths[i],
           UNCHANGED <<n_paths, next_path_handle, primary_path_idx, multipath_ready>>,
           xqc' \in XqcType,
           conn' # "null" =>
               conn # "null" /\ \A k \in PathIds : xqc[k] = "none" <=> xqc'[k] = "none",
           state' = "IDLE" \/ in_connect' => state = "IDLE" \/ in_connect,
           destroyed => destroyed',
           hold_extra_paths => hold_extra_paths',
           releases' \in [Handles -> Nat]
    PROVE  TableInv'
  <1>1. TableTypeOK'
    BY DEF TableInv, TableTypeOK, XqcType
  <1>2. GoodTable(paths')
    BY Zenon DEF GoodTable
  <1>3. Unused(paths', n_paths')
    BY Zenon DEF TableInv, Unused
  <1>4. (conn # "null" => Matching(paths, xqc))'
    BY MatchingStable DEF TableInv
  <1>5. ((state = "IDLE" \/ in_connect) /\ ~destroyed => Fresh(paths))'
    BY DEF TableInv, Fresh
  <1>6. (state = "IDLE" \/ in_connect => ~multipath_ready)'
    BY DEF TableInv
  <1>7. (conn # "null" /\ multipath_ready /\ Multipath /\ ~hold_extra_paths =>
             \A i \in Slots : paths[i].state # "PENDING")'
    BY DEF TableInv
  <1> QED BY <1>1, <1>2, <1>3, <1>4, <1>5, <1>6, <1>7 DEF TableInv

\* The same for a step that does not touch the table at all.
LEMMA TableUntouched ==
    ASSUME TableInv, UNCHANGED <<tableVars, primary_path_idx, multipath_ready, releases>>,
           xqc' \in XqcType,
           conn' # "null" =>
               conn # "null" /\ \A k \in PathIds : xqc[k] = "none" <=> xqc'[k] = "none",
           state' = "IDLE" \/ in_connect' => state = "IDLE" \/ in_connect,
           destroyed => destroyed',
           hold_extra_paths => hold_extra_paths'
    PROVE  TableInv' /\ KeepsTransports
  <1>1. TableInv'
    <2>1. paths' = paths /\ n_paths' = n_paths /\ next_path_handle' = next_path_handle
      BY DEF tableVars
    <2>2. paths \in [Slots -> path_entry_t] /\ \A i \in Slots : GoodSlot(paths[i])
      BY DEF TableInv, GoodTable
    <2>3. releases' \in [Handles -> Nat]
      BY DEF TableInv, TableTypeOK
    <2> QED BY <2>1, <2>2, <2>3, QuietStep
  <1>2. KeepsTransports
    BY DEF KeepsHandles, KeepsTransports, tableVars
  <1> QED BY <1>1, <1>2

\* PATH_ABANDON only moves a path of xquic to closing: none appears or disappears.
LEMMA AbandonKeepsPaths ==
    ASSUME TableInv, ConnInv, NEW i \in Slots, xqc_conn_close_path(i)
    PROVE  /\ xqc' \in XqcType
           /\ conn # "null" => \A k \in PathIds : xqc[k] = "none" <=> xqc'[k] = "none"
  <1>1. xqc \in XqcType
    BY DEF TableInv, TableTypeOK, XqcType
  <1>2. CASE UNCHANGED xqc
    BY <1>1, <1>2
  <1>3. CASE /\ paths[i].live /\ conn = "open"
             /\ xqc' = [xqc EXCEPT ![paths[i].id] = "closing"]
    <2>1. xqc[paths[i].id] # "none" /\ paths[i].id \in PathIds
      BY <1>3 DEF TableInv, Matching, GoodTable, path_entry_t
    <2> QED BY <1>1, <1>3, <2>1 DEF XqcType
  <1> QED BY <1>2, <1>3 DEF xqc_conn_close_path

\* mqvpn_client_remove_path and mqvpn_client_on_platform_path_dropped.
LEMMA DropStep ==
    ASSUME TableInv, ConnInv, NEW i \in Slots,
           \/ mqvpn_client_remove_path(i)
           \/ mqvpn_client_on_platform_path_dropped(i)
    PROVE  TableInv' /\ DetachesTransport(i)
  <1>1. /\ i \in Used
        /\ xqc_conn_close_path(i)
        /\ UNCHANGED <<connVars, mpVars, n_paths, next_path_handle, destroyed, releases>>
    BY DEF mqvpn_client_remove_path, mqvpn_client_on_platform_path_dropped
  <1>2. \A j \in Slots : GoodSlot(paths[j])
    BY DEF TableInv, GoodTable
  <1>3. paths' = [paths EXCEPT ![i] = path_on_platform_drop(paths[i])]
    BY <1>2, DropIsGood DEF mqvpn_client_remove_path, mqvpn_client_on_platform_path_dropped
  <1>4. \A j \in Slots : paths'[j] = IF j = i THEN path_on_platform_drop(paths[i]) ELSE paths[j]
    BY <1>3 DEF TableInv, GoodTable
  <1>5. \A j \in Slots : /\ GoodSlot(paths'[j])
                         /\ paths'[j].live <=> paths[j].live
                         /\ paths'[j].id = paths[j].id
                         /\ paths'[j].handle = paths[j].handle
                         /\ paths'[j].released <=> paths[j].released
                         /\ paths'[j].attached <=> paths[j].attached /\ j # i
                         /\ paths'[j].state = "PENDING" => paths[j].state = "PENDING"
                         /\ paths'[j].attached => paths'[j] = paths[j]
                         /\ j >= n_paths => paths'[j] = paths[j]
    <2>1. /\ GoodSlot(paths'[i])
          /\ paths'[i].handle = paths[i].handle /\ paths'[i].released = paths[i].released
          /\ paths'[i].live = paths[i].live /\ paths'[i].id = paths[i].id
          /\ ~paths'[i].attached /\ paths'[i].state \in {"CLOSED_DROPPED", "CLOSED_FREE"}
      BY <1>2, <1>4, DropIsGood
    <2>2. ~(i >= n_paths)
      BY <1>1 DEF Used, TableInv, TableTypeOK, Slots
    <2> QED BY <1>2, <1>4, <2>1, <2>2
  <1>6. paths' \in [Slots -> path_entry_t]
    BY <1>3, <1>5 DEF TableInv, GoodTable, GoodSlot
  <1>7. TableInv'
    <2>1. /\ xqc' \in XqcType
          /\ conn # "null" => \A k \in PathIds : xqc[k] = "none" <=> xqc'[k] = "none"
      BY <1>1, AbandonKeepsPaths
    <2>2. releases' \in [Handles -> Nat]
      BY <1>1 DEF TableInv, TableTypeOK
    <2>3. UNCHANGED <<conn, state, in_connect, destroyed, hold_extra_paths, n_paths,
                      next_path_handle, primary_path_idx, multipath_ready>>
      BY <1>1 DEF connVars, mpVars
    <2> QED BY <1>5, <1>6, <2>1, <2>2, <2>3, QuietStep
  <1>8. DetachesTransport(i)
    BY <1>1, <1>5 DEF KeepsHandles, DetachesTransport
  <1> QED BY <1>7, <1>8

\* mqvpn_client_on_platform_path_released: slot i's transport is released, once.
LEMMA ReleaseStep ==
    ASSUME TableInv, NEW i \in Slots, mqvpn_client_on_platform_path_released(i)
    PROVE  /\ TableInv'
           /\ \A j \in Slots : /\ paths'[j].handle = paths[j].handle
                               /\ j # i => paths'[j] = paths[j]
           /\ paths'[i].released
  <1>1. /\ i \in Used /\ paths[i].state = "CLOSED_DROPPED"
        /\ releases' = [releases EXCEPT ![paths[i].handle] = @ + 1]
        /\ paths' = [paths EXCEPT ![i] = path_on_transport_released(paths[i])]
        /\ UNCHANGED <<connVars, mpVars, n_paths, next_path_handle, xqc, destroyed>>
    BY DEF mqvpn_client_on_platform_path_released
  <1>2. \A j \in Slots : GoodSlot(paths[j])
    BY DEF TableInv, GoodTable
  <1>3. \A j \in Slots : paths'[j] = IF j = i THEN path_on_transport_released(paths[i])
                                               ELSE paths[j]
    BY <1>1 DEF TableInv, GoodTable
  <1>4. /\ GoodSlot(paths'[i]) /\ paths'[i].released
        /\ paths'[i].handle = paths[i].handle
        /\ paths'[i].live = paths[i].live /\ paths'[i].id = paths[i].id
        /\ ~paths'[i].attached /\ paths'[i].state \in {"CLOSED_DROPPED", "CLOSED_FREE"}
    BY <1>1, <1>2, <1>3, TransportReleasedIsGood
  <1>5. ~(i >= n_paths)
    BY <1>1 DEF Used, TableInv, TableTypeOK, Slots
  <1>6. paths' \in [Slots -> path_entry_t]
    BY <1>1, <1>4 DEF TableInv, GoodTable, GoodSlot
  <1>7. TableInv'
    <2>1. releases' \in [Handles -> Nat]
      <3>1. releases \in [Handles -> Nat]
        BY DEF TableInv, TableTypeOK
      <3>2. releases' = [h \in Handles |->
                            IF h = paths[i].handle THEN releases[h] + 1 ELSE releases[h]]
        BY <1>1, <3>1, Zenon
      <3> QED BY <3>1, <3>2
    <2>4. xqc' \in XqcType
      BY <1>1 DEF TableInv, TableTypeOK, XqcType
    <2>2. UNCHANGED <<conn, state, in_connect, destroyed, hold_extra_paths, n_paths,
                      next_path_handle, primary_path_idx, multipath_ready, xqc>>
      BY <1>1 DEF connVars, mpVars
    <2>3. \A j \in Slots : /\ GoodSlot(paths'[j])
                           /\ paths'[j].live <=> paths[j].live
                           /\ paths'[j].id = paths[j].id
                           /\ paths'[j].state = "PENDING" => paths[j].state = "PENDING"
                           /\ paths'[j].attached => paths'[j] = paths[j]
                           /\ j >= n_paths => paths'[j] = paths[j]
      BY <1>2, <1>3, <1>4, <1>5, Zenon
    <2> QED BY <1>6, <2>1, <2>2, <2>3, <2>4, QuietStep
  <1> QED BY <1>3, <1>4, <1>7

\* One tick of the clock.
LEMMA ElapseStep ==
    ASSUME TableInv, Elapse
    PROVE  TableInv' /\ KeepsTransports
  <1>1. /\ paths' = [i \in Slots |->
                       [paths[i] EXCEPT !.after  = count_down(@),
                           !.stable = IF @ \in 1 .. PATH_STABLE_THRESHOLD
                                      THEN @ + 1 ELSE @]]
        /\ UNCHANGED <<state, conn, in_connect, n_paths, next_path_handle, mpVars,
                       xqc, destroyed, releases>>
    BY Zenon DEF Elapse
  <1>2. \A i \in Slots : /\ GoodSlot(paths'[i]) /\ SameTransport(paths[i], paths'[i])
                         /\ paths'[i].live = paths[i].live /\ paths'[i].id = paths[i].id
                         /\ paths'[i].state = paths[i].state
    <2> SUFFICES ASSUME NEW i \in Slots
                 PROVE  /\ GoodSlot(paths'[i]) /\ SameTransport(paths[i], paths'[i])
                        /\ paths'[i].live = paths[i].live /\ paths'[i].id = paths[i].id
                        /\ paths'[i].state = paths[i].state
      OBVIOUS
    <2>1. GoodSlot(paths[i])
      BY DEF TableInv, GoodTable
    <2>2. paths'[i] = [paths[i] EXCEPT !.after  = count_down(@),
                           !.stable = IF @ \in 1 .. PATH_STABLE_THRESHOLD
                                      THEN @ + 1 ELSE @]
      BY <1>1, Zenon
    <2> QED BY <2>1, <2>2, ElapseIsGood, Zenon
  <1>3. \A i \in Slots : i >= n_paths => paths'[i] = paths[i]
    <2> SUFFICES ASSUME NEW i \in Slots, i >= n_paths PROVE paths'[i] = paths[i]
      OBVIOUS
    <2>1. paths[i] = path_entry_init
      BY DEF TableInv, Unused
    <2>3. paths[i].after = 0 /\ paths[i].stable = 0
      BY <2>1, UnusedSlot, Zenon
    <2>4. GoodSlot(paths[i])
      BY DEF TableInv, GoodTable
    <2> QED BY <1>1, <2>3, <2>4, ElapseIsGood, Zenon
  <1>4. paths' \in [Slots -> path_entry_t]
    <2>1. \A i \in Slots : paths'[i] \in path_entry_t
      BY <1>2 DEF GoodSlot
    <2> QED BY <1>1, <2>1, Zenon
  <1>5. TableInv'
    <2>1. releases' \in [Handles -> Nat] /\ xqc' \in XqcType
      BY <1>1, Zenon DEF TableInv, TableTypeOK, XqcType
    <2>2. UNCHANGED <<primary_path_idx, multipath_ready, hold_extra_paths>>
      BY <1>1, Zenon DEF mpVars
    <2>3. \A i \in Slots : /\ GoodSlot(paths'[i])
                           /\ paths'[i].live <=> paths[i].live
                           /\ paths'[i].id = paths[i].id
                           /\ paths'[i].state = "PENDING" => paths[i].state = "PENDING"
                           /\ paths'[i].attached /\ paths[i].state = "PENDING" =>
                                  paths'[i].state = "PENDING"
                           /\ paths'[i].attached => paths[i].attached
                           /\ i >= n_paths => paths'[i] = paths[i]
      BY <1>2, <1>3, Zenon DEF SameTransport
    <2>4. UNCHANGED <<state, conn, in_connect, n_paths, next_path_handle, destroyed, xqc>>
      BY <1>1, Zenon
    <2> QED BY <1>4, <2>1, <2>2, <2>3, <2>4, QuietStep, Zenon
  <1>6. KeepsTransports
    BY <1>1, <1>2, Zenon DEF KeepsHandles, KeepsTransports, SameTransport
  <1> QED BY <1>5, <1>6

\* cb_path_removed unbinds the one slot bound to the path that ended.
LEMMA RemovedStep ==
    ASSUME TableInv, ConnInv, NEW k \in PathIds, cb_path_removed(k)
    PROVE  TableInv' /\ KeepsTransports
  <1>1. /\ conn # "null"
        /\ xqc' = [xqc EXCEPT ![k] = "none"]
        /\ paths' = [i \in Slots |-> IF bound(i, k) THEN path_on_xquic_removed(paths[i])
                                                    ELSE paths[i]]
        /\ UNCHANGED <<connVars, n_paths, next_path_handle, mpVars, destroyed, releases>>
    BY DEF cb_path_removed
  <1>2. GoodTable(paths) /\ Matching(paths, xqc)
    BY <1>1, Zenon DEF TableInv
  <1>3. \A i \in Slots : paths[i].live => i \in Used
    <2> SUFFICES ASSUME NEW i \in Slots, paths[i].live, i >= n_paths PROVE FALSE
      BY DEF Used, TableInv, TableTypeOK, Slots
    <2>1. paths[i] = path_entry_init
      BY DEF TableInv, Unused
    <2> QED BY <2>1, UnusedSlot, Zenon
  <1>4. \A i \in Slots : bound(i, k) <=> paths[i].live /\ paths[i].id = k
    BY <1>3 DEF bound
  <1>5. \A i \in Slots :
           IF bound(i, k)
           THEN /\ GoodSlot(paths'[i]) /\ SameTransport(paths[i], paths'[i])
                /\ ~paths'[i].live /\ paths'[i].state # "PENDING"
           ELSE paths'[i] = paths[i]
    <2> SUFFICES ASSUME NEW i \in Slots, bound(i, k)
                 PROVE  /\ GoodSlot(paths'[i]) /\ SameTransport(paths[i], paths'[i])
                        /\ ~paths'[i].live /\ paths'[i].state # "PENDING"
      BY <1>1
    <2>1. GoodSlot(paths[i]) /\ paths[i].live
      BY <1>2 DEF GoodTable, bound
    <2>2. paths'[i] = path_on_xquic_removed(paths[i])
      BY <1>1
    <2> QED BY <2>1, <2>2, RemovedIsGood, Zenon
  <1>6. GoodTable(paths')
    <2>1. \A i \in Slots : GoodSlot(paths'[i])
      BY <1>2, <1>5 DEF GoodTable
    <2>2. \A i \in Slots : paths'[i] \in path_entry_t
      BY <2>1 DEF GoodSlot
    <2> QED BY <1>1, <2>1, <2>2 DEF GoodTable
  <1>7. Matching(paths', xqc')
    <2>1. xqc \in XqcType
      BY DEF TableInv, TableTypeOK, XqcType
    <2>2. \A j \in PathIds : xqc'[j] = IF j = k THEN "none" ELSE xqc[j]
      BY <1>1, <2>1 DEF XqcType
    <2>3. \A i \in Slots : /\ paths'[i].live <=> paths[i].live /\ paths[i].id # k
                           /\ paths'[i].live => paths'[i].id = paths[i].id
      BY <1>4, <1>5
    <2>4. \A i \in Slots : paths[i].id \in PathIds
      BY <1>2 DEF GoodTable, path_entry_t
    <2> QED BY <1>2, <2>2, <2>3, <2>4 DEF Matching
  <1>8. TableTypeOK'
    <2>1. UNCHANGED <<primary_path_idx>>
      BY <1>1 DEF mpVars
    <2> QED BY <1>1, <1>6, <2>1 DEF TableInv, TableTypeOK, GoodTable
  <1>9. TableInv'
    <2>1. UNCHANGED <<conn, state, in_connect, multipath_ready, hold_extra_paths>>
      BY <1>1 DEF connVars, mpVars
    <2>2. ~((state = "IDLE" \/ in_connect) /\ ~destroyed)
      BY <1>1 DEF ConnInv, ConnMatchesState
    <2>3. Unused(paths', n_paths')
      BY <1>1, <1>3, <1>4, <1>5 DEF TableInv, TableTypeOK, Unused, Used
    <2>4. \A i \in Slots : paths'[i].state = "PENDING" => paths[i].state = "PENDING"
      BY <1>5
    <2> QED BY <1>1, <1>6, <1>7, <1>8, <2>1, <2>2, <2>3, <2>4 DEF TableInv
  <1>10. KeepsTransports
    BY <1>1, <1>5, Zenon DEF KeepsHandles, KeepsTransports, SameTransport
  <1> QED BY <1>9, <1>10

\* cli_start_connection, from IDLE or inside a restart: the only binding of the new
\* connection is the primary slot's, to the bootstrap path.
LEMMA StartStep ==
    ASSUME TableInv, ConnInv, mqvpn_client_connect \/ restart_ok
    PROVE  TableInv' /\ KeepsTransports
  <1>a. (state = "IDLE" \/ in_connect) /\ ~destroyed
    BY DEF mqvpn_client_connect, restart_ok, Idle, ConnInv
  <1>b. state' = "CONNECTING" /\ ~in_connect'
    BY DEF mqvpn_client_connect, restart_ok, client_set_state, Idle
  <1>1. /\ primary_ready
        /\ xqc' = [NoPath EXCEPT ![0] = "validating"]
        /\ paths' = [i \in Slots |->
                       IF i \in Used /\ i = primary_path_idx
                       THEN [paths[i] EXCEPT !.id = 0, !.live = TRUE, !.state = "VALIDATING"]
                       ELSE paths[i]]
        /\ UNCHANGED <<n_paths, next_path_handle, mpVars, destroyed, releases>>
    BY Zenon DEF mqvpn_client_connect, restart_ok, cli_start_connection
  <1>2. Fresh(paths) /\ ~multipath_ready /\ GoodTable(paths)
    BY <1>a DEF TableInv
  <1>3. \A i \in Slots :
           IF i \in Used /\ i = primary_path_idx
           THEN /\ GoodSlot(paths'[i]) /\ SameTransport(paths[i], paths'[i])
                /\ paths'[i].live /\ paths'[i].id = 0
           ELSE paths'[i] = paths[i]
    <2> SUFFICES ASSUME NEW i \in Slots, i \in Used, i = primary_path_idx
                 PROVE  /\ GoodSlot(paths'[i]) /\ SameTransport(paths[i], paths'[i])
                        /\ paths'[i].live /\ paths'[i].id = 0
      BY <1>1, Zenon
    <2>1. paths[i].attached
      <3>1. n_paths > 0 /\ primary_path_idx < n_paths
        BY ClientAssumption DEF Used, TableInv, TableTypeOK
      <3> QED BY <1>1, <3>1, Zenon DEF primary_ready
    <2>2. paths[i].state = "PENDING" /\ GoodSlot(paths[i])
      BY <1>2, <2>1 DEF Fresh, GoodTable
    <2>3. paths'[i] = [paths[i] EXCEPT !.id = 0, !.live = TRUE, !.state = "VALIDATING"]
      BY <1>1, Zenon
    <2> QED BY <2>2, <2>3, BootstrapIsGood, Zenon
  <1>4. GoodTable(paths')
    <2>1. \A i \in Slots : GoodSlot(paths'[i])
      BY <1>2, <1>3 DEF GoodTable
    <2>2. \A i \in Slots : paths'[i] \in path_entry_t
      BY <2>1 DEF GoodSlot
    <2> QED BY <1>1, <2>1, <2>2, Zenon DEF GoodTable
  <1>5. \A k \in PathIds : xqc'[k] = IF k = 0 THEN "validating" ELSE "none"
    BY <1>1, Zenon DEF NoPath
  <1>6. Matching(paths', xqc')
    BY <1>2, <1>3, <1>5, ZeroInRanges DEF Matching, Fresh
  <1>7. xqc' \in XqcType
    BY <1>1, ZeroInRanges, Zenon DEF NoPath, XqcType
  <1>8. Unused(paths', n_paths')
    <2>1. \A i \in Slots : i >= n_paths => i \notin Used
      BY ClientAssumption DEF TableInv, TableTypeOK, Used, Slots
    <2>2. \A i \in Slots : i >= n_paths => paths'[i] = paths[i]
      BY <1>3, <2>1
    <2>3. n_paths' = n_paths
      BY <1>1, Zenon
    <2> QED BY <2>2, <2>3 DEF TableInv, Unused
  <1>9. TableTypeOK' /\ ~multipath_ready'
    BY <1>1, <1>2, <1>4, <1>7, Zenon DEF TableInv, TableTypeOK, GoodTable, XqcType, mpVars
  <1>10. TableInv'
    BY <1>1, <1>b, <1>4, <1>6, <1>8, <1>9, Zenon DEF TableInv
  <1>11. KeepsTransports
    BY <1>1, <1>3, Zenon DEF KeepsHandles, KeepsTransports, SameTransport
  <1> QED BY <1>10, <1>11

\* A set of naturals that is not empty has a smallest element.
LEMMA SmallestOf ==
    ASSUME NEW T \in SUBSET Nat, T # {}
    PROVE  \E x \in T : \A y \in T : x <= y
  <1>1. PICK x \in T : \A y \in T : ~(<<y, x>> \in OpToRel(<, Nat))
    BY NatLessThanWellFounded, WFMin, Zenon
  <1>2. \A y \in T : y < x => <<y, x>> \in OpToRel(<, Nat)
    BY Zenon DEF OpToRel
  <1>3. \A y \in T : ~(y < x)
    BY <1>1, <1>2, Zenon
  <1> QED BY <1>3

\* A remainder is below its divisor.
LEMMA Remainder ==
    ASSUME NEW a \in Nat, NEW n \in Nat \ {0}
    PROVE  a % n \in 0 .. n - 1
  OBVIOUS

\* The rotation names a slot of the table.
LEMMA NextPrimaryInRange ==
    ASSUME TableTypeOK, NEW ps
    PROVE  client_next_primary_idx(ps, primary_path_idx) \in Slots
  <1> DEFINE from == primary_path_idx
             eligible(d) == LET p == ps[(from + d) % n_paths]
                            IN  p.attached
                                /\ path_public_status_from_lifecycle(p.state) # "CLOSED"
             good(d) == eligible(d) /\ \A e \in 1 .. d - 1 : ~eligible(e)
  <1>1. n_paths \in 0 .. MQVPN_MAX_PATHS /\ from \in Slots /\ MQVPN_MAX_PATHS \in Nat \ {0}
    BY ClientAssumption DEF TableTypeOK
  <1>2. client_next_primary_idx(ps, from) =
            IF n_paths = 0 THEN 0
            ELSE IF \E d \in 1 .. n_paths : eligible(d)
                 THEN (from + CHOOSE d \in 1 .. n_paths : good(d)) % n_paths
                 ELSE from
    BY DEF client_next_primary_idx
  <1> HIDE DEF eligible
  <1>3. CASE n_paths = 0
    BY <1>1, <1>2, <1>3 DEF Slots
  <1>4. CASE n_paths # 0 /\ ~\E d \in 1 .. n_paths : eligible(d)
    BY <1>1, <1>2, <1>4
  <1>5. CASE n_paths # 0 /\ \E d \in 1 .. n_paths : eligible(d)
    <2> DEFINE T == {d \in 1 .. n_paths : eligible(d)}
    <2>1. PICK x \in T : \A y \in T : x <= y
      <3>1. T \in SUBSET Nat /\ T # {}
        BY <1>1, <1>5
      <3> HIDE DEF T
      <3> QED BY <3>1, SmallestOf
    <2>2. x \in 1 .. n_paths /\ good(x)
      <3>1. x \in 1 .. n_paths /\ eligible(x)
        BY <2>1
      <3>2. ASSUME NEW e \in 1 .. x - 1 PROVE ~eligible(e)
        <4>1. e \in 1 .. n_paths /\ ~(x <= e)
          BY <1>1, <3>1
        <4> QED BY <2>1, <4>1
      <3> QED BY <3>1, <3>2
    <2> DEFINE d == CHOOSE d \in 1 .. n_paths : good(d)
    <2> HIDE DEF good
    <2>3. d \in 1 .. n_paths
      BY <2>2
    <2>4. client_next_primary_idx(ps, from) = (from + d) % n_paths
      BY <1>2, <1>5
    <2> HIDE DEF d
    <2>5. from + d \in Nat /\ n_paths \in Nat \ {0}
      BY <1>1, <1>5, <2>3 DEF Slots
    <2>6. (from + d) % n_paths \in 0 .. n_paths - 1
      BY <2>5, Remainder, Zenon
    <2> QED BY <1>1, <2>4, <2>6 DEF Slots
  <1> QED BY <1>3, <1>4, <1>5
==============================================================================
