----------------------------- MODULE ClientProofs -----------------------------
(*****************************************************************************)
(* The theorems about the client core, for every table size, every           *)
(* configuration and every number of handles and path ids: first the events  *)
(* that reset or activate several slots at once, then what follows.          *)
(*****************************************************************************)
EXTENDS ClientTableProofs

-----------------------------------------------------------------------------
(* The events that reset or activate several slots, and every other step. *)

\* The reset before a new attempt leaves a fresh table.
LEMMA ResetStep ==
    ASSUME TableInv, ConnInv, mqvpn_client_connect_again \/ tick_reconnect
    PROVE  TableInv' /\ KeepsTransports
  <1> DEFINE ps == [i \in Slots |-> IF i \in Used THEN path_on_conn_reset(paths[i])
                                                   ELSE paths[i]]
  <1>1. /\ state = "RECONNECTING" /\ ~destroyed
        /\ paths' = ps
        /\ primary_path_idx' = client_next_primary_idx(ps, primary_path_idx)
        /\ multipath_ready' = FALSE
        /\ UNCHANGED <<state, conn, n_paths, next_path_handle, xqc, destroyed, releases>>
    BY DEF mqvpn_client_connect_again, tick_reconnect, client_reset_paths_for_reconnect, Idle
  <1>2. conn = "null"
    BY <1>1 DEF ConnInv, ConnMatchesState
  <1>3. GoodTable(paths)
    BY DEF TableInv
  <1>4. \A i \in Slots :
           IF i \in Used
           THEN /\ GoodSlot(paths'[i]) /\ SameTransport(paths[i], paths'[i])
                /\ ~paths'[i].live /\ (paths'[i].attached => paths'[i].state = "PENDING")
           ELSE paths'[i] = paths[i]
    BY <1>1, <1>3, ResetIsGood DEF GoodTable
  <1>5. \A i \in Slots : i \notin Used => paths[i] = path_entry_init
    BY DEF TableInv, TableTypeOK, Unused, Used, Slots
  <1>6. \A i \in Slots :
           /\ GoodSlot(paths'[i])
           /\ ~paths'[i].live /\ (paths'[i].attached => paths'[i].state = "PENDING")
    BY <1>3, <1>4, <1>5 DEF GoodTable, path_entry_init
  <1>7. GoodTable(paths') /\ Fresh(paths')
    <2>1. \A i \in Slots : paths'[i] \in path_entry_t
      BY <1>6 DEF GoodSlot
    <2> QED BY <1>1, <1>6, <2>1 DEF GoodTable, Fresh
  <1>8. primary_path_idx' \in Slots
    BY <1>1, NextPrimaryInRange DEF TableInv
  <1>9. Unused(paths', n_paths')
    BY <1>1, <1>4 DEF TableInv, TableTypeOK, Unused, Used
  <1>10. TableTypeOK'
    BY <1>1, <1>7, <1>8 DEF TableInv, TableTypeOK, GoodTable
  <1>11. TableInv'
    BY <1>1, <1>2, <1>7, <1>9, <1>10 DEF TableInv
  <1>12. KeepsTransports
    BY <1>1, <1>4 DEF KeepsHandles, KeepsTransports, SameTransport
  <1> QED BY <1>11, <1>12

\* cb_ready_to_create_path and the end of the hold in cli_connect_ip_on_body: the
\* activation runs over a table ps that differs from paths by a validation at most.
LEMMA ReadyStep ==
    ASSUME TableInv, NEW cond, NEW ps, GoodTable(ps), ActivateIf(cond, ps),
           \A i \in Slots : /\ (ps[i].live <=> paths[i].live) /\ ps[i].id = paths[i].id
                            /\ SameTransport(paths[i], ps[i])
                            /\ ps[i].state = "PENDING" <=> paths[i].state = "PENDING"
                            /\ i >= n_paths => ps[i] = paths[i],
           UNCHANGED <<conn, n_paths, next_path_handle, primary_path_idx, releases>>,
           conn # "null", state' # "IDLE", ~in_connect',
           multipath_ready' /\ Multipath /\ ~hold_extra_paths' =>
               \/ cond
               \/ multipath_ready /\ ~hold_extra_paths
    PROVE  TableInv' /\ KeepsTransports
  <1>1. xqc \in XqcType
    BY DEF TableInv, TableTypeOK, XqcType
  <1>2. /\ GoodTable(paths') /\ xqc' \in XqcType
        /\ Matching(ps, xqc) => Matching(paths', xqc')
        /\ \A i \in Slots : /\ SameTransport(ps[i], paths'[i])
                            /\ ps[i].state # "PENDING" => paths'[i] = ps[i]
                            /\ cond => paths'[i].state # "PENDING"
        /\ ~cond => paths' = ps
    BY <1>1, ActivatePending
  <1>3. Matching(paths', xqc')
    <2>1. GoodTable(paths) /\ Matching(paths, xqc)
      BY DEF TableInv
    <2> QED BY <1>2, <2>1, MatchingStable
  <1>4. TableTypeOK'
    BY <1>2 DEF TableInv, TableTypeOK, GoodTable, XqcType
  <1>5. Unused(paths', n_paths')
    <2> SUFFICES ASSUME NEW i \in Slots, i >= n_paths PROVE paths'[i] = path_entry_init
      BY DEF Unused
    <2>1. ps[i] = path_entry_init
      BY DEF TableInv, Unused
    <2>2. ps[i].state # "PENDING"
      BY <2>1, UnusedSlot
    <2> QED BY <1>2, <2>1, <2>2
  <1>6. (conn # "null" /\ multipath_ready /\ Multipath /\ ~hold_extra_paths =>
             \A i \in Slots : paths[i].state # "PENDING")'
    <2> SUFFICES ASSUME multipath_ready', Multipath, ~hold_extra_paths'
                 PROVE  \A i \in Slots : paths'[i].state # "PENDING"
      OBVIOUS
    <2>1. CASE cond
      BY <1>2, <2>1
    <2>2. CASE ~cond /\ multipath_ready /\ ~hold_extra_paths
      <3>1. \A i \in Slots : paths[i].state # "PENDING"
        BY <2>2 DEF TableInv
      <3> QED BY <1>2, <2>2, <3>1
    <2> QED BY <2>1, <2>2
  <1>7. TableInv'
    BY <1>2, <1>3, <1>4, <1>5, <1>6 DEF TableInv
  <1>8. KeepsTransports
    BY <1>2 DEF KeepsHandles, KeepsTransports, SameTransport
  <1> QED BY <1>7, <1>8

\* cb_ready_to_create_path.
LEMMA ReadyToCreateStep ==
    ASSUME TableInv, ConnInv, cb_ready_to_create_path
    PROVE  TableInv' /\ KeepsTransports
  <1>1. /\ conn = "open" /\ ~in_connect /\ ~destroyed
        /\ ActivateIf(Multipath /\ ~hold_extra_paths, paths)
        /\ UNCHANGED <<connVars, n_paths, next_path_handle, primary_path_idx,
                       hold_extra_paths, destroyed, releases>>
    BY DEF cb_ready_to_create_path, Idle
  <1>2. GoodTable(paths)
    BY DEF TableInv
  <1>3. UNCHANGED <<conn, state, in_connect, hold_extra_paths>> /\ state # "IDLE"
    BY <1>1 DEF connVars, ConnInv, ConnMatchesState
  <1> DEFINE cond == Multipath /\ ~hold_extra_paths
  <1>4. ActivateIf(cond, paths) /\ (Multipath /\ ~hold_extra_paths' => cond)
    BY <1>1, <1>3
  <1>5. \A i \in Slots : SameTransport(paths[i], paths[i])
    BY DEF SameTransport
  <1> HIDE DEF cond
  <1> QED BY <1>1, <1>2, <1>3, <1>4, <1>5, ReadyStep

\* cli_connect_ip_on_body.
LEMMA BodyStep ==
    ASSUME TableInv, ConnInv, cli_connect_ip_on_body
    PROVE  TableInv' /\ KeepsTransports
  <1> DEFINE ps == [i \in Slots |->
                       IF i = primary_path_idx /\ attached(i) /\ paths[i].id = 0
                       THEN path_on_validation_ok(paths[i], "ACTIVE")
                       ELSE paths[i]]
             cond == hold_extra_paths /\ multipath_ready /\ Multipath
  <1>1. /\ conn = "open" /\ ~in_connect
        /\ state' = "TUNNEL_READY"
        /\ ActivateIf(cond, ps)
        /\ UNCHANGED <<conn, in_connect, n_paths, next_path_handle, primary_path_idx,
                       multipath_ready, releases>>
    BY DEF cli_connect_ip_on_body, Idle, client_set_state
  <1>2. GoodTable(paths)
    BY DEF TableInv
  <1>3. \A i \in Slots :
           /\ GoodSlot(ps[i]) /\ SameTransport(paths[i], ps[i])
           /\ ps[i].live = paths[i].live /\ ps[i].id = paths[i].id
           /\ \/ ps[i].state = paths[i].state
              \/ paths[i].state = "VALIDATING" /\ ps[i].state = "ACTIVE"
    BY <1>2, ValidationIsGood DEF GoodTable, SameTransport
  <1>4. \A i \in Slots : i >= n_paths => ps[i] = paths[i]
    BY ClientAssumption DEF attached, Used, TableInv, TableTypeOK, Slots
  <1>5. GoodTable(ps)
    <2>1. \A i \in Slots : ps[i] \in path_entry_t
      BY <1>3 DEF GoodSlot
    <2>2. ps = [i \in Slots |-> ps[i]]
      OBVIOUS
    <2>3. \A i \in Slots : GoodSlot(ps[i])
      BY <1>3
    <2> HIDE DEF ps
    <2> QED BY <2>1, <2>2, <2>3 DEF GoodTable
  <1>6. multipath_ready' /\ Multipath => cond \/ (multipath_ready /\ ~hold_extra_paths)
    BY <1>1
  <1> HIDE DEF ps, cond
  <1>7. \A i \in Slots : /\ (ps[i].live <=> paths[i].live) /\ ps[i].id = paths[i].id
                         /\ SameTransport(paths[i], ps[i])
                         /\ ps[i].state = "PENDING" <=> paths[i].state = "PENDING"
                         /\ i >= n_paths => ps[i] = paths[i]
    BY <1>3, <1>4
  <1> QED BY <1>1, <1>5, <1>6, <1>7, ReadyStep

\* An activation of slots that are not PENDING on an established connection.
LEMMA RetryStep ==
    ASSUME TableInv, ConnInv, NEW ps, GoodTable(ps), NEW A \in SUBSET Used,
           NEW result, NEW new_id, Activation(A, ps, paths', xqc, xqc', result, new_id),
           \A i \in A : ~ps[i].live,
           \A i \in Slots : /\ (ps[i].live <=> paths[i].live) /\ ps[i].id = paths[i].id
                            /\ SameTransport(paths[i], ps[i])
                            /\ ps[i].state = "PENDING" => paths[i].state = "PENDING"
                            /\ i >= n_paths => ps[i] = paths[i],
           Idle, state = "ESTABLISHED",
           UNCHANGED <<connVars, n_paths, next_path_handle, mpVars, destroyed, releases>>
    PROVE  TableInv' /\ KeepsTransports
  <1>1. xqc \in XqcType /\ A \in SUBSET Slots
    BY ClientAssumption DEF TableInv, TableTypeOK, XqcType, Used, Slots
  <1>2. /\ GoodTable(paths') /\ xqc' \in XqcType
        /\ Matching(ps, xqc) => Matching(paths', xqc')
    BY <1>1, ActivationKeepsMatching, Zenon
  <1>3. conn # "null" /\ Matching(paths, xqc) /\ GoodTable(paths)
    BY DEF ConnInv, ConnMatchesState, TableInv, Idle
  <1>4. Matching(paths', xqc')
    BY <1>2, <1>3, MatchingStable
  <1>5. \A i \in Slots : IF i \in A THEN /\ SameTransport(ps[i], paths'[i])
                                         /\ paths'[i].state # "PENDING"
                                    ELSE paths'[i] = ps[i]
    BY DEF Activation, ActivationOutcome
  <1>6. TableTypeOK'
    BY <1>2 DEF TableInv, TableTypeOK, GoodTable, XqcType, mpVars
  <1>7. Unused(paths', n_paths')
    <2>1. \A i \in Slots : i >= n_paths => i \notin A
      BY ClientAssumption DEF TableInv, TableTypeOK, Used, Slots
    <2> QED BY <1>5, <2>1 DEF TableInv, Unused
  <1>8. UNCHANGED <<state, conn, in_connect, multipath_ready, hold_extra_paths>>
        /\ state # "IDLE" /\ ~in_connect
    BY DEF connVars, mpVars, Idle
  <1>9. \A i \in Slots : paths'[i].state = "PENDING" => paths[i].state = "PENDING"
    BY <1>5
  <1>10. TableInv'
    BY <1>2, <1>4, <1>6, <1>7, <1>8, <1>9, Zenon DEF TableInv
  <1>11. KeepsTransports
    <2>1. ASSUME NEW i \in Slots
          PROVE  SameTransport(paths[i], paths'[i])
      <3>1. SameTransport(paths[i], ps[i])
        OBVIOUS
      <3>2. SameTransport(ps[i], paths'[i])
        BY <1>5, Zenon DEF SameTransport
      <3> QED BY <3>1, <3>2, Zenon DEF SameTransport
    <2>2. UNCHANGED <<n_paths, next_path_handle, releases>>
      OBVIOUS
    <2> QED BY <2>1, <2>2, Zenon DEF KeepsHandles, KeepsTransports, SameTransport
  <1> QED BY <1>10, <1>11

\* mqvpn_client_reactivate_path.
LEMMA ReactivateStep ==
    ASSUME TableInv, ConnInv, NEW a \in Slots, mqvpn_client_reactivate_path(a)
    PROVE  TableInv' /\ KeepsTransports
  <1> DEFINE A == {a}
  <1>1. /\ Idle /\ state = "ESTABLISHED" /\ a \in Used
        /\ reactivate_slot_eligible(paths[a])
        /\ UNCHANGED <<connVars, mpVars, n_paths, next_path_handle, destroyed, releases>>
    BY DEF mqvpn_client_reactivate_path
  <1>2. PICK result \in [A -> activate_result_t], new_id \in [A -> PathIds \ {0}] :
          LET created == {i \in A : result[i] = "OK"}
          IN  /\ created # {} => conn = "open"
              /\ \A i \in created :
                   /\ xqc[new_id[i]] = "none"
                   /\ \A j \in created : new_id[i] = new_id[j] => i = j
              /\ paths' = [i \in Slots |->
                             IF i \in A
                             THEN path_on_manual_reactivate(paths[i], result[i], new_id[i])
                             ELSE paths[i]]
              /\ xqc' = [k \in PathIds |->
                           IF \E i \in created : new_id[i] = k THEN "validating" ELSE xqc[k]]
    BY DEF mqvpn_client_reactivate_path, xqc_conn_create_path
  <1>3. GoodTable(paths)
    BY DEF TableInv
  <1>4. \A i \in A : /\ ActivationOutcome(paths[i], result[i], new_id[i], paths'[i])
                     /\ ~paths[i].live
    <2>1. GoodSlot(paths[a]) /\ ~paths[a].live
          /\ paths[a].state \in {"CLOSED_RECOVERABLE", "CREATE_WAIT", "DEGRADED"}
      BY <1>1, <1>3 DEF GoodTable, reactivate_slot_eligible
    <2>2. result[a] \in activate_result_t /\ new_id[a] \in PathIds
      OBVIOUS
    <2>3. paths'[a] = path_on_manual_reactivate(paths[a], result[a], new_id[a])
      BY <1>2
    <2>4. ActivationOutcome(paths[a], result[a], new_id[a], paths'[a])
      BY <2>1, <2>2, <2>3, ReactivateOutcome
    <2> QED BY <2>1, <2>4
  <1>5. Activation(A, paths, paths', xqc, xqc', result, new_id)
    <2>1. \A i \in Slots \ A : paths'[i] = paths[i]
      BY <1>2
    <2>2. \A i \in Slots : paths'[i] \in path_entry_t
      BY <1>3, <1>4, <2>1 DEF GoodTable, ActivationOutcome, GoodSlot
    <2>3. paths' \in [Slots -> path_entry_t]
      BY <1>2, <2>2
    <2>4. \A i \in A : result[i] = "OK" =>
             /\ xqc[new_id[i]] = "none"
             /\ \A j \in A : result[j] = "OK" /\ new_id[i] = new_id[j] => i = j
      BY <1>2
    <2>5. xqc' = [k \in PathIds |->
                    IF \E i \in A : result[i] = "OK" /\ new_id[i] = k
                    THEN "validating" ELSE xqc[k]]
      BY <1>2
    <2> HIDE DEF A
    <2> QED BY <1>4, <2>1, <2>3, <2>4, <2>5 DEF Activation
  <1>6. A \in SUBSET Used
    BY <1>1
  <1>7. \A i \in Slots : SameTransport(paths[i], paths[i])
    BY DEF SameTransport
  <1> HIDE DEF A
  <1> QED BY <1>1, <1>3, <1>4, <1>5, <1>6, <1>7, RetryStep

\* tick_path_recovery.
LEMMA RecoveryStep ==
    ASSUME TableInv, ConnInv, tick_path_recovery
    PROVE  TableInv' /\ KeepsTransports
  <1> DEFINE ps == [i \in Slots |->
                       IF i \in Used
                       THEN path_fsm_tick_confirm_stable(tick_check_validation(paths[i]))
                       ELSE paths[i]]
             A == {i \in Used : retry_due(ps[i])}
  <1>1. /\ Idle /\ state = "ESTABLISHED"
        /\ UNCHANGED <<connVars, n_paths, next_path_handle, mpVars, destroyed, releases>>
    BY DEF tick_path_recovery
  <1>2. PICK result \in [A -> activate_result_t], new_id \in [A -> PathIds \ {0}] :
          LET created == {i \in A : result[i] = "OK"}
          IN  /\ created # {} => conn = "open"
              /\ \A i \in created :
                   /\ xqc[new_id[i]] = "none"
                   /\ \A j \in created : new_id[i] = new_id[j] => i = j
              /\ paths' = [i \in Slots |->
                             IF i \in A THEN path_on_retry_timer(ps[i], result[i], new_id[i])
                             ELSE ps[i]]
              /\ xqc' = [k \in PathIds |->
                           IF \E i \in created : new_id[i] = k THEN "validating" ELSE xqc[k]]
    BY Zenon DEF tick_path_recovery, xqc_conn_create_path
  <1>3. GoodTable(paths)
    BY DEF TableInv
  <1>4. Used \subseteq Slots
    BY ClientAssumption DEF TableInv, TableTypeOK, Used, Slots
  <1>5. \A i \in Slots :
           /\ GoodSlot(ps[i]) /\ SameTransport(paths[i], ps[i])
           /\ (ps[i].live <=> paths[i].live) /\ ps[i].id = paths[i].id
           /\ ps[i].state = "PENDING" => paths[i].state = "PENDING"
    <2> SUFFICES ASSUME NEW i \in Slots
                 PROVE  /\ GoodSlot(ps[i]) /\ SameTransport(paths[i], ps[i])
                        /\ (ps[i].live <=> paths[i].live) /\ ps[i].id = paths[i].id
                        /\ ps[i].state = "PENDING" => paths[i].state = "PENDING"
      OBVIOUS
    <2>1. GoodSlot(paths[i])
      BY <1>3 DEF GoodTable
    <2>2. CASE i \in Used
      <3> DEFINE v == tick_check_validation(paths[i])
      <3>1. /\ GoodSlot(v) /\ SameTransport(paths[i], v)
            /\ v.live = paths[i].live /\ v.id = paths[i].id
            /\ v.state = "PENDING" => paths[i].state = "PENDING"
        BY <2>1, ValidationIsGood DEF tick_check_validation, validated_target, SameTransport
      <3>2. ps[i] = path_fsm_tick_confirm_stable(v)
        BY <2>2
      <3> HIDE DEF v, ps
      <3> QED BY <3>1, <3>2, ConfirmStableIsGood DEF SameTransport
    <2>3. CASE i \notin Used
      <3>1. ps[i] = paths[i]
        BY <2>3
      <3> HIDE DEF ps
      <3> QED BY <2>1, <3>1 DEF SameTransport
    <2> QED BY <2>2, <2>3
  <1>6. GoodTable(ps)
    <2>1. \A i \in Slots : GoodSlot(ps[i]) /\ ps[i] \in path_entry_t
      BY <1>5 DEF GoodSlot
    <2>2. ps = [i \in Slots |-> ps[i]]
      OBVIOUS
    <2> HIDE DEF ps
    <2> QED BY <2>1, <2>2 DEF GoodTable
  <1>7. \A i \in Slots : i >= n_paths => ps[i] = paths[i]
    BY ClientAssumption DEF Used, TableInv, TableTypeOK, Slots
  <1>8. /\ A \in SUBSET Used
        /\ \A i \in A : i \in Slots /\ ps[i].state \in {"DEGRADED", "CREATE_WAIT"}
    BY <1>4 DEF retry_due
  <1>9. \A i \in Slots \ A : paths'[i] = ps[i]
    BY <1>2
  <1>10. \A i \in A : paths'[i] = path_on_retry_timer(ps[i], result[i], new_id[i])
    BY <1>2, <1>8
  <1>11. xqc' = [k \in PathIds |->
                   IF \E i \in A : result[i] = "OK" /\ new_id[i] = k
                   THEN "validating" ELSE xqc[k]]
    BY <1>2
  <1>12. \A i \in A : result[i] = "OK" =>
             /\ xqc[new_id[i]] = "none"
             /\ \A j \in A : result[j] = "OK" /\ new_id[i] = new_id[j] => i = j
    BY <1>2, Zenon
  <1>13. paths' = [i \in Slots |-> paths'[i]]
    BY <1>2
  <1> HIDE DEF A, ps
  <1>14. \A i \in A : ActivationOutcome(ps[i], result[i], new_id[i], paths'[i]) /\ ~ps[i].live
    <2> SUFFICES ASSUME NEW i \in A
                 PROVE  ActivationOutcome(ps[i], result[i], new_id[i], paths'[i])
                        /\ ~ps[i].live
      OBVIOUS
    <2>1. GoodSlot(ps[i]) /\ ps[i].state \in {"CREATE_WAIT", "DEGRADED"}
      BY <1>6, <1>8 DEF GoodTable
    <2>2. ~ps[i].live
      BY <2>1 DEF GoodSlot, path_invariant_check
    <2>3. result[i] \in activate_result_t /\ new_id[i] \in PathIds
      OBVIOUS
    <2>4. paths'[i] = path_on_retry_timer(ps[i], result[i], new_id[i])
      BY <1>10
    <2>5. ActivationOutcome(ps[i], result[i], new_id[i], paths'[i])
      BY <2>1, <2>3, <2>4, RetryTimerOutcome
    <2> QED BY <2>2, <2>5
  <1>15. Activation(A, ps, paths', xqc, xqc', result, new_id)
    <2>1. \A i \in Slots : paths'[i] \in path_entry_t
      BY <1>6, <1>9, <1>14 DEF GoodTable, ActivationOutcome, GoodSlot
    <2>2. paths' \in [Slots -> path_entry_t]
      BY <1>13, <2>1
    <2> QED BY <1>9, <1>11, <1>12, <1>14, <2>2 DEF Activation
  <1> QED BY <1>1, <1>5, <1>6, <1>7, <1>8, <1>14, <1>15, RetryStep, Zenon

\* Every step but adding, dropping and releasing a path leaves the transports as they
\* are, and every step preserves the invariant of the table.
LEMMA TableStep ==
    ASSUME TableInv, ConnInv, [Next]_vars
    PROVE  /\ TableInv'
           /\ \/ mqvpn_client_add_path
              \/ \E i \in Slots : mqvpn_client_on_platform_path_released(i)
              \/ mqvpn_client_destroy
              \/ \E i \in Slots : DetachesTransport(i)
              \/ KeepsTransports
  <1>0. xqc \in XqcType /\ NoPath \in XqcType
    BY DEF TableInv, TableTypeOK, XqcType, NoPath
  <1>1. CASE UNCHANGED vars
    BY <1>0, <1>1, TableUntouched DEF vars, connVars, mpVars
  <1>2. CASE mqvpn_client_add_path
    BY <1>2, AddPathStep
  <1>3. ASSUME NEW i \in Slots,
               mqvpn_client_remove_path(i) \/ mqvpn_client_on_platform_path_dropped(i)
        PROVE  TableInv' /\ DetachesTransport(i)
    BY <1>3, DropStep
  <1>4. ASSUME NEW i \in Slots, mqvpn_client_on_platform_path_released(i)
        PROVE  TableInv'
    BY <1>4, ReleaseStep
  <1>5. ASSUME NEW i \in Slots, mqvpn_client_reactivate_path(i)
        PROVE  TableInv' /\ KeepsTransports
    BY <1>5, ReactivateStep
  <1>6. CASE cb_ready_to_create_path
    BY <1>6, ReadyToCreateStep
  <1>7. ASSUME NEW k \in PathIds, xqc_path_validated(k)
        PROVE  TableInv' /\ KeepsTransports
    <2>1. /\ xqc[k] = "validating" /\ xqc' = [xqc EXCEPT ![k] = "active"]
          /\ UNCHANGED <<connVars, tableVars, mpVars, destroyed, releases>>
      BY <1>7 DEF xqc_path_validated
    <2>2. xqc' \in XqcType /\ \A j \in PathIds : xqc[j] = "none" <=> xqc'[j] = "none"
      BY <1>0, <2>1 DEF XqcType
    <2>3. UNCHANGED <<conn, state, in_connect, primary_path_idx, multipath_ready,
                      hold_extra_paths>>
      BY <2>1 DEF connVars, mpVars
    <2> QED BY <2>1, <2>2, <2>3, TableUntouched
  <1>8. ASSUME NEW k \in PathIds, cb_path_removed(k)
        PROVE  TableInv' /\ KeepsTransports
    BY <1>8, RemovedStep
  <1>9. CASE mqvpn_client_connect \/ restart_ok
    BY <1>9, StartStep
  <1>10. CASE mqvpn_client_connect_again \/ tick_reconnect
    BY <1>10, ResetStep
  <1>11. CASE restart_failed
    <2>1. /\ in_connect
          /\ UNCHANGED <<state, conn, tableVars, mpVars, xqc, destroyed, releases>>
      BY <1>11 DEF restart_failed
    <2> QED BY <1>0, <2>1, TableUntouched DEF mpVars
  <1>12. CASE cli_report_cert_rejected \/ cli_connect_ip_scan_headers
              \/ cli_connect_ip_on_request_close
    <2>1. UNCHANGED <<state, conn, in_connect, tableVars, mpVars, xqc, destroyed, releases>>
      BY <1>12 DEF cli_report_cert_rejected, cli_connect_ip_scan_headers,
                   cli_connect_ip_on_request_close
    <2> QED BY <1>0, <2>1, TableUntouched DEF mpVars
  <1>13. CASE cb_h3_conn_handshake_finished
    <2>1. /\ state' = "AUTHENTICATING"
          /\ UNCHANGED <<conn, in_connect, tableVars, primary_path_idx, multipath_ready,
                         xqc, destroyed, releases>>
      BY <1>13 DEF cb_h3_conn_handshake_finished, client_set_state
    <2>2. hold_extra_paths => hold_extra_paths'
      BY <1>13, Zenon DEF cb_h3_conn_handshake_finished
    <2> QED BY <1>0, <2>1, <2>2, TableUntouched
  <1>14. CASE cli_connect_ip_on_body
    BY <1>14, BodyStep
  <1>15. CASE cli_check_ipv6_mtu
    <2>1. /\ conn # "null"
          /\ UNCHANGED <<state, in_connect, tableVars, mpVars, xqc, destroyed, releases>>
      BY <1>15 DEF cli_check_ipv6_mtu
    <2> QED BY <1>0, <2>1, TableUntouched DEF mpVars
  <1>16. CASE mqvpn_client_set_tun_active
    <2>1. /\ state' = "ESTABLISHED"
          /\ UNCHANGED <<conn, in_connect, tableVars, mpVars, xqc, destroyed, releases>>
      BY <1>16 DEF mqvpn_client_set_tun_active, client_set_state
    <2> QED BY <1>0, <2>1, TableUntouched DEF mpVars
  <1>17. CASE cb_h3_conn_close
    <2>1. /\ conn' = "null" /\ xqc' = NoPath /\ state' # "IDLE" /\ ~in_connect
          /\ UNCHANGED <<in_connect, tableVars, mpVars, destroyed, releases>>
      BY <1>17 DEF cb_h3_conn_close, conn_closed, client_set_state, Idle
    <2> QED BY <1>0, <2>1, TableUntouched DEF mpVars
  <1>18. CASE mqvpn_client_disconnect
    <2>1. /\ state' = "CLOSED" /\ ~in_connect
          /\ UNCHANGED <<in_connect, tableVars, mpVars, destroyed, releases>>
      BY <1>18 DEF mqvpn_client_disconnect, client_set_state, Idle
    <2>2. \/ conn' = "null" /\ xqc' = NoPath
          \/ conn' = "null" /\ xqc' = xqc
          \/ conn # "null" /\ xqc' = xqc
      BY <1>18 DEF mqvpn_client_disconnect, conn_closed
    <2> QED BY <1>0, <2>1, <2>2, TableUntouched DEF mpVars
  <1>19. CASE mqvpn_client_destroy
    <2>1. /\ conn' = "null" /\ xqc' = NoPath /\ destroyed'
          /\ releases' = [h \in Handles |->
                            IF \E i \in Used : paths[i].handle = h /\ ~paths[i].released
                            THEN releases[h] + 1 ELSE releases[h]]
          /\ (state' = "IDLE" => state = "IDLE")
          /\ UNCHANGED <<in_connect, tableVars, mpVars>>
      BY <1>19 DEF mqvpn_client_destroy, conn_closed, client_set_state
    <2>2. releases' \in [Handles -> Nat]
      BY <2>1 DEF TableInv, TableTypeOK
    <2>3. paths' = paths /\ n_paths' = n_paths /\ next_path_handle' = next_path_handle
          /\ UNCHANGED <<primary_path_idx, multipath_ready, hold_extra_paths>>
      BY <2>1 DEF tableVars, mpVars
    <2>4. paths \in [Slots -> path_entry_t] /\ \A i \in Slots : GoodSlot(paths[i])
      BY DEF TableInv, GoodTable
    <2>5. TableInv'
      BY <1>0, <2>1, <2>2, <2>3, <2>4, QuietStep
    <2> QED BY <1>19, <2>5
  <1>20. CASE tick_handshake_watchdog
    <2>1. /\ state = "CONNECTING" /\ (conn' # "null" => conn # "null") /\ state' # "IDLE"
          /\ UNCHANGED <<in_connect, tableVars, mpVars, xqc, destroyed, releases>>
      BY <1>20 DEF tick_handshake_watchdog, client_set_state
    <2> QED BY <1>0, <2>1, TableUntouched DEF mpVars
  <1>21. CASE tick_path_recovery
    BY <1>21, RecoveryStep
  <1>22. CASE Elapse
    BY <1>22, ElapseStep
  <1> QED
    BY <1>1, <1>2, <1>3, <1>4, <1>5, <1>6, <1>7, <1>8, <1>9, <1>10, <1>11, <1>12, <1>13,
       <1>14, <1>15, <1>16, <1>17, <1>18, <1>19, <1>20, <1>21, <1>22
    DEF Next, Gone

\* The initial state.
LEMMA TableInit == Init => TableInv
  <1> SUFFICES ASSUME Init PROVE TableInv
    OBVIOUS
  <1>1. paths = [i \in Slots |-> path_entry_init]
    BY DEF Init
  <1>2. GoodTable(paths)
    BY <1>1, InitIsGood DEF GoodTable, GoodSlot
  <1>3. Fresh(paths) /\ Unused(paths, n_paths)
    BY <1>1 DEF Fresh, Unused, path_entry_init
  <1>4. TableTypeOK
    BY <1>2, ClientAssumption, PathBoundsAssumption
    DEF Init, TableTypeOK, GoodTable, Slots, NoPath
  <1> QED BY <1>2, <1>3, <1>4 DEF Init, TableInv

-----------------------------------------------------------------------------
(* The transports: who owns one, and how often it is released. *)

\* ReleasedExactlyOnce, strengthened: handles are issued in order, and no two slots
\* in use carry the same one.
TransportInv ==
    /\ \A i \in Slots : paths[i].handle < next_path_handle
    /\ \A i \in Used : paths[i].handle # 0
    /\ \A i, j \in Used : paths[i].handle = paths[j].handle => i = j
    /\ ReleasedExactlyOnce

\* What adding a path does to the transports: slot i, which was CLOSED_FREE, owes the
\* release of a new handle, and no other slot changes hands.
LEMMA AddTransport ==
    ASSUME TableInv, mqvpn_client_add_path
    PROVE  /\ \E i \in Slots :
                /\ paths[i].state = "CLOSED_FREE" /\ i <= n_paths
                /\ n_paths' = (IF i = n_paths THEN n_paths + 1 ELSE n_paths)
                /\ \A j \in Slots :
                      IF j = i THEN /\ paths'[j].handle = next_path_handle
                                    /\ paths'[j].attached /\ ~paths'[j].released
                      ELSE /\ paths'[j].handle = paths[j].handle
                           /\ paths'[j].attached <=> paths[j].attached
                           /\ paths'[j].released <=> paths[j].released
           /\ next_path_handle' = next_path_handle + 1
           /\ UNCHANGED <<releases, destroyed>> /\ ~destroyed
  <1> DEFINE cond == multipath_ready /\ Multipath /\ conn # "null" /\ ~hold_extra_paths
  <1>1. PICK i \in Slots, q \in path_entry_t :
              /\ paths[i].state = "CLOSED_FREE" /\ i <= n_paths
              /\ n_paths' = (IF i = n_paths THEN n_paths + 1 ELSE n_paths)
              /\ GoodSlot(q) /\ q.handle = next_path_handle
              /\ q.attached /\ ~q.released
              /\ ActivateIf(cond, [paths EXCEPT ![i] = q])
    BY AddPath, Zenon
  <1> DEFINE ps == [paths EXCEPT ![i] = q]
  <1>2. \A j \in Slots : ps[j] = IF j = i THEN q ELSE paths[j]
    BY DEF TableInv, GoodTable
  <1>3. GoodTable(ps)
    BY <1>1, <1>2 DEF TableInv, GoodTable
  <1>4. xqc \in XqcType
    BY DEF TableInv, TableTypeOK, XqcType
  <1>5. ActivateIf(cond, ps)
    BY <1>1
  <1> HIDE DEF ps, cond
  <1>6. \A j \in Slots : SameTransport(ps[j], paths'[j])
    BY <1>3, <1>4, <1>5, ActivatePending
  <1>7. \A j \in Slots :
            IF j = i THEN /\ paths'[j].handle = next_path_handle
                          /\ paths'[j].attached /\ ~paths'[j].released
            ELSE /\ paths'[j].handle = paths[j].handle
                 /\ paths'[j].attached <=> paths[j].attached
                 /\ paths'[j].released <=> paths[j].released
    BY <1>1, <1>2, <1>6 DEF SameTransport
  <1>8. /\ next_path_handle' = next_path_handle + 1
        /\ UNCHANGED <<releases, destroyed>> /\ ~destroyed
    BY DEF mqvpn_client_add_path
  <1> QED BY <1>1, <1>7, <1>8

\* A recycled slot's transport has been released.
LEMMA FreeIsReleased ==
    ASSUME TableInv, TransportInv, ~destroyed, NEW i \in Slots,
           paths[i].state = "CLOSED_FREE", paths[i].handle # 0
    PROVE  i \in Used /\ paths[i].handle \in Handles /\ releases[paths[i].handle] = 1
  <1>1. i \in Used
    <2> SUFFICES ASSUME i >= n_paths PROVE FALSE
      BY DEF Used, Slots, TableInv, TableTypeOK
    <2>1. paths[i] = path_entry_init
      BY DEF TableInv, Unused
    <2> QED BY <2>1, UnusedSlot
  <1>2. paths[i].released /\ paths[i].handle \in 0 .. MaxHandle
    BY DEF TableInv, GoodTable, GoodSlot, path_invariant_check, path_entry_t
  <1>3. paths[i].handle \in Handles /\ paths[i].handle < next_path_handle
    BY <1>2 DEF Handles, TransportInv
  <1>4. \A j \in Used : paths[j].handle = paths[i].handle => paths[j].released
    BY <1>1, <1>2 DEF TransportInv
  <1> QED BY <1>1, <1>3, <1>4 DEF TransportInv, ReleasedExactlyOnce

\* Adding a path.
LEMMA AddKeepsTransports ==
    ASSUME TableInv, TransportInv, mqvpn_client_add_path
    PROVE  TransportInv'
  <1>1. PICK i \in Slots :
                /\ paths[i].state = "CLOSED_FREE" /\ i <= n_paths
                /\ n_paths' = (IF i = n_paths THEN n_paths + 1 ELSE n_paths)
                /\ \A j \in Slots :
                      IF j = i THEN paths'[j].handle = next_path_handle /\ ~paths'[j].released
                      ELSE /\ paths'[j].handle = paths[j].handle
                           /\ paths'[j].released <=> paths[j].released
    BY AddTransport
  <1>2. /\ next_path_handle' = next_path_handle + 1
        /\ UNCHANGED <<releases, destroyed>> /\ ~destroyed
    BY AddTransport
  <1>3. /\ n_paths \in Nat /\ next_path_handle \in Nat \ {0} /\ Used \subseteq Slots
        /\ \A j \in Slots : paths[j].handle \in Nat
    BY ClientAssumption, PathBoundsAssumption
    DEF TableInv, TableTypeOK, GoodTable, path_entry_t, Used, Slots
  <1>4. \A j \in Slots : j \in Used' <=> j \in Used \/ j = i
    BY <1>1, <1>3, ClientAssumption DEF Used, Slots
  <1>5. \A j \in Used' : j \in Slots
    BY <1>1, <1>3, ClientAssumption DEF Used, Slots, TableInv, TableTypeOK
  <1>6. \A j \in Slots : paths'[j].handle < next_path_handle'
    BY <1>1, <1>2, <1>3 DEF TransportInv
  <1>7. \A j \in Used' : paths'[j].handle # 0
    BY <1>1, <1>3, <1>4, <1>5 DEF TransportInv
  <1>8. \A j, k \in Used' : paths'[j].handle = paths'[k].handle => j = k
    BY <1>1, <1>3, <1>4, <1>5 DEF TransportInv
  <1>9. ASSUME NEW h \in Handles
        PROVE  releases[h] = IF /\ h < next_path_handle'
                                /\ \/ destroyed
                                   \/ \A j \in Used' : paths'[j].handle = h => paths'[j].released
                             THEN 1 ELSE 0
    <2>1. CASE h = next_path_handle
      <3>1. releases[h] = 0
        BY <1>3, <2>1 DEF TransportInv, ReleasedExactlyOnce
      <3>2. i \in Used' /\ paths'[i].handle = h /\ ~paths'[i].released
        BY <1>1, <1>4, <2>1
      <3> QED BY <1>2, <3>1, <3>2
    <2>2. CASE h = paths[i].handle
      <3>1. h # 0 /\ h # next_path_handle
        BY <1>3, <2>2 DEF Handles, TransportInv
      <3>2. i \in Used /\ releases[h] = 1 /\ h < next_path_handle
        BY <1>1, <1>2, <2>2, <3>1, FreeIsReleased DEF TransportInv
      <3>3. \A j \in Used' : paths'[j].handle # h
        BY <1>1, <1>4, <1>5, <2>2, <3>1, <3>2 DEF TransportInv
      <3>4. h < next_path_handle'
        BY <1>2, <1>3, <3>2 DEF Handles
      <3> QED BY <3>2, <3>3, <3>4
    <2>3. CASE h # next_path_handle /\ h # paths[i].handle
      <3>1. h < next_path_handle' <=> h < next_path_handle
        BY <1>2, <1>3, <2>3 DEF Handles
      <3>2. (\A j \in Used' : paths'[j].handle = h => paths'[j].released)
               <=> (\A j \in Used : paths[j].handle = h => paths[j].released)
        BY <1>1, <1>3, <1>4, <1>5, <2>3
      <3> QED BY <3>1, <3>2 DEF TransportInv, ReleasedExactlyOnce
    <2> QED BY <2>1, <2>2, <2>3
  <1>10. ReleasedExactlyOnce'
    BY <1>2, <1>9 DEF ReleasedExactlyOnce
  <1> QED BY <1>6, <1>7, <1>8, <1>10 DEF TransportInv

\* Releasing the transport of a dropped slot.
LEMMA ReleaseKeepsTransports ==
    ASSUME TableInv, TransportInv, NEW i \in Slots, mqvpn_client_on_platform_path_released(i)
    PROVE  TransportInv'
  <1>1. /\ i \in Used /\ ~paths[i].released /\ ~destroyed
        /\ releases' = [releases EXCEPT ![paths[i].handle] = @ + 1]
        /\ UNCHANGED <<n_paths, next_path_handle, destroyed>>
    BY DEF mqvpn_client_on_platform_path_released
  <1>2. /\ \A j \in Slots : /\ paths'[j].handle = paths[j].handle
                            /\ j # i => paths'[j] = paths[j]
        /\ paths'[i].released
    BY ReleaseStep
  <1>3. Used' = Used /\ Used \subseteq Slots /\ releases \in [Handles -> Nat]
    BY <1>1, ClientAssumption DEF TableInv, TableTypeOK, Used, Slots
  <1>4. ASSUME NEW h \in Handles
        PROVE  releases'[h] = IF /\ h < next_path_handle
                                 /\ \A j \in Used : paths'[j].handle = h => paths'[j].released
                              THEN 1 ELSE 0
    <2>1. CASE h = paths[i].handle
      <3>1. releases[h] = 0
        BY <1>1, <2>1 DEF TransportInv, ReleasedExactlyOnce
      <3>2. releases'[h] = 1
        BY <1>1, <1>3, <2>1, <3>1
      <3>3. \A j \in Used : paths'[j].handle = h => paths'[j].released
        BY <1>1, <1>2, <1>3, <2>1 DEF TransportInv
      <3>4. h < next_path_handle
        BY <2>1 DEF TransportInv
      <3> QED BY <3>2, <3>3, <3>4
    <2>2. CASE h # paths[i].handle
      <3>1. releases'[h] = releases[h]
        BY <1>1, <1>3, <2>2
      <3>2. (\A j \in Used : paths'[j].handle = h => paths'[j].released)
               <=> (\A j \in Used : paths[j].handle = h => paths[j].released)
        BY <1>2, <1>3, <2>2
      <3> QED BY <1>1, <3>1, <3>2 DEF TransportInv, ReleasedExactlyOnce
    <2> QED BY <2>1, <2>2
  <1>5. ReleasedExactlyOnce'
    BY <1>1, <1>3, <1>4 DEF ReleasedExactlyOnce
  <1> QED BY <1>1, <1>2, <1>3, <1>5 DEF TransportInv

\* Destroying the client.
LEMMA DestroyKeepsTransports ==
    ASSUME TableInv, TransportInv, mqvpn_client_destroy
    PROVE  TransportInv'
  <1>1. /\ ~destroyed /\ destroyed'
        /\ releases' = [h \in Handles |->
                           IF \E i \in Used : paths[i].handle = h /\ ~paths[i].released
                           THEN releases[h] + 1 ELSE releases[h]]
        /\ UNCHANGED tableVars
    BY DEF mqvpn_client_destroy, Idle
  <1>2. UNCHANGED <<paths, n_paths, next_path_handle>> /\ Used' = Used
        /\ Used \subseteq Slots
    BY <1>1, ClientAssumption DEF tableVars, Used, Slots, TableInv, TableTypeOK
  <1>3. ASSUME NEW h \in Handles
        PROVE  releases'[h] = IF h < next_path_handle THEN 1 ELSE 0
    <2>1. CASE \E i \in Used : paths[i].handle = h /\ ~paths[i].released
      <3>1. h < next_path_handle
        BY <1>2, <2>1 DEF TransportInv
      <3>2. releases[h] = 0
        BY <1>1, <2>1 DEF TransportInv, ReleasedExactlyOnce
      <3> QED BY <1>1, <2>1, <3>1, <3>2
    <2>2. CASE ~\E i \in Used : paths[i].handle = h /\ ~paths[i].released
      <3>1. releases'[h] = releases[h]
        BY <1>1, <2>2
      <3> QED BY <1>1, <2>2, <3>1 DEF TransportInv, ReleasedExactlyOnce
    <2> QED BY <2>1, <2>2
  <1>4. ReleasedExactlyOnce'
    BY <1>1, <1>2, <1>3 DEF ReleasedExactlyOnce
  <1> QED BY <1>2, <1>4 DEF TransportInv

\* Only mqvpn_client_destroy destroys the client.
LEMMA DestroyedStep ==
    ASSUME [Next]_vars, ~mqvpn_client_destroy
    PROVE  UNCHANGED destroyed
  BY Zenon DEF Next, vars, mqvpn_client_add_path, mqvpn_client_remove_path,
         mqvpn_client_on_platform_path_dropped, mqvpn_client_on_platform_path_released,
         mqvpn_client_reactivate_path, cb_ready_to_create_path, xqc_path_validated,
         cb_path_removed, tick_path_recovery, Gone, mqvpn_client_connect, restart_ok,
         mqvpn_client_connect_again, tick_reconnect, client_reset_paths_for_reconnect,
         restart_failed, cli_report_cert_rejected, cb_h3_conn_handshake_finished,
         cli_connect_ip_scan_headers, cli_connect_ip_on_body, cli_check_ipv6_mtu,
         cli_connect_ip_on_request_close, mqvpn_client_set_tun_active, cb_h3_conn_close,
         mqvpn_client_disconnect, tick_handshake_watchdog, Elapse

\* Every step preserves the invariant of the transports.
LEMMA TransportStep ==
    ASSUME TableInv, ConnInv, TransportInv, [Next]_vars
    PROVE  TransportInv'
  <1>1. CASE mqvpn_client_add_path
    BY <1>1, AddKeepsTransports
  <1>2. CASE \E i \in Slots : mqvpn_client_on_platform_path_released(i)
    BY <1>2, ReleaseKeepsTransports
  <1>3. CASE mqvpn_client_destroy
    BY <1>3, DestroyKeepsTransports
  <1>4. CASE KeepsHandles /\ ~mqvpn_client_destroy
    <2>1. UNCHANGED destroyed
      BY <1>4, DestroyedStep
    <2>2. Used' = Used /\ Used \subseteq Slots
      BY <1>4, ClientAssumption DEF KeepsHandles, Used, Slots, TableInv, TableTypeOK
    <2>3. ReleasedExactlyOnce'
      BY <1>4, <2>1, <2>2 DEF KeepsHandles, TransportInv, ReleasedExactlyOnce
    <2> QED BY <1>4, <2>2, <2>3 DEF KeepsHandles, TransportInv
  <1> QED BY <1>1, <1>2, <1>3, <1>4, TableStep DEF KeepsTransports, DetachesTransport

\* The initial state.
LEMMA TransportInit == Init => TransportInv
  <1> SUFFICES ASSUME Init PROVE TransportInv
    OBVIOUS
  <1>1. paths = [i \in Slots |-> path_entry_init] /\ n_paths = 0 /\ next_path_handle = 1
        /\ releases = [h \in Handles |-> 0]
    BY DEF Init
  <1>2. Used = {}
    BY <1>1 DEF Used
  <1>3. \A i \in Slots : paths[i].handle = 0
    BY <1>1, UnusedSlot
  <1>4. ReleasedExactlyOnce
    BY <1>1 DEF ReleasedExactlyOnce, Handles
  <1> QED BY <1>1, <1>2, <1>3, <1>4 DEF TransportInv

\* A slot that changes handles was CLOSED_FREE, its transport released, and the new
\* handle is larger than any before.
LEMMA HandleStep ==
    ASSUME TableInv, ConnInv, TransportInv, [Next]_vars
    PROVE  \A i \in Slots :
               paths'[i].handle # paths[i].handle =>
                   /\ paths[i].state = "CLOSED_FREE"
                   /\ paths[i].handle # 0 => releases[paths[i].handle] = 1
                   /\ \A j \in Slots : paths[j].handle < paths'[i].handle
  <1>1. CASE mqvpn_client_add_path
    <2>1. PICK a \in Slots :
              /\ paths[a].state = "CLOSED_FREE"
              /\ \A j \in Slots :
                    IF j = a THEN paths'[j].handle = next_path_handle
                    ELSE paths'[j].handle = paths[j].handle
      BY <1>1, AddTransport
    <2>2. paths[a].handle # 0 => releases[paths[a].handle] = 1
      BY <1>1, <2>1, FreeIsReleased, AddTransport
    <2> QED BY <2>1, <2>2 DEF TransportInv
  <1>2. CASE \E i \in Slots : mqvpn_client_on_platform_path_released(i)
    BY <1>2, ReleaseStep
  <1>3. CASE mqvpn_client_destroy
    BY <1>3 DEF mqvpn_client_destroy, tableVars
  <1>4. CASE KeepsHandles
    BY <1>4 DEF KeepsHandles
  <1> QED BY <1>1, <1>2, <1>3, <1>4, TableStep DEF KeepsTransports, DetachesTransport

-----------------------------------------------------------------------------
(* The transport contract: phase, as a function of the table, moves as          *)
(* TransportContract lets it.                                                   *)

\* What phase says of a handle, where no release can have happened twice.
LEMMA PhaseIs ==
    ASSUME TransportInv, NEW h \in Handles
    PROVE  phase[h] = IF h >= next_path_handle THEN "unborn"
                      ELSE IF releases[h] = 1 THEN "released"
                      ELSE IF Holds(h) THEN "attached" ELSE "detached"
  <1>1. ~(releases[h] > 1)
    <2>1. releases[h] \in {0, 1}
      BY DEF TransportInv, ReleasedExactlyOnce
    <2> QED BY <2>1
  <1>2. phase[h] = IF h >= next_path_handle THEN "unborn"
                   ELSE IF releases[h] > 1 THEN "released twice"
                   ELSE IF releases[h] = 1 THEN "released"
                   ELSE IF Holds(h) THEN "attached" ELSE "detached"
    BY Zenon DEF phase
  <1> QED BY <1>1, <1>2, Zenon

\* The same of the state after a step.
LEMMA PhaseIsNext ==
    ASSUME TransportInv', NEW h \in Handles
    PROVE  phase'[h] = IF h >= next_path_handle' THEN "unborn"
                       ELSE IF releases'[h] = 1 THEN "released"
                       ELSE IF Holds(h)' THEN "attached" ELSE "detached"
  <1>1. ~(releases'[h] > 1)
    <2>1. releases'[h] \in {0, 1}
      BY DEF TransportInv, ReleasedExactlyOnce
    <2> QED BY <2>1
  <1>2. phase'[h] = IF h >= next_path_handle' THEN "unborn"
                   ELSE IF releases'[h] > 1 THEN "released twice"
                   ELSE IF releases'[h] = 1 THEN "released"
                   ELSE IF Holds(h)' THEN "attached" ELSE "detached"
    BY Zenon DEF phase
  <1> QED BY <1>1, <1>2, Zenon

\* A step that changes the phase of one handle is a Move of the contract.
LEMMA MoveOne ==
    ASSUME NEW h \in Handles, NEW to, phase'[h] = to,
           \A g \in Handles : g # h => phase'[g] = phase[g]
    PROVE  phase' = [phase EXCEPT ![h] = to]
  BY Zenon DEF phase

\* A step that changes no handle's phase.
LEMMA MoveNone ==
    ASSUME \A g \in Handles : phase'[g] = phase[g]
    PROVE  phase' = phase
  BY Zenon DEF phase

\* The types the arithmetic of the handles needs.
LEMMA HandleTypes ==
    ASSUME TableInv
    PROVE  /\ next_path_handle \in Nat \ {0} /\ Handles \subseteq Nat /\ Used \subseteq Slots
           /\ \A j \in Slots : paths[j].handle \in Nat
  BY ClientAssumption, PathBoundsAssumption
  DEF TableInv, TableTypeOK, GoodTable, path_entry_t, Used, Slots, Handles

\* A slot in use carries a handle that was issued.
LEMMA UsedHandle ==
    ASSUME TableInv, TransportInv, NEW i \in Used
    PROVE  paths[i].handle \in Handles /\ paths[i].handle < next_path_handle
  <1>1. i \in Slots
    BY HandleTypes, Zenon
  <1>2. paths[i].handle \in 0 .. MaxHandle
    BY <1>1, Zenon DEF TableInv, GoodTable, path_entry_t
  <1>3. paths[i].handle # 0 /\ paths[i].handle < next_path_handle
    BY <1>1, Zenon DEF TransportInv
  <1> QED BY <1>2, <1>3, PathBoundsAssumption DEF Handles

\* mqvpn_client_add_path is Add of the next handle.
LEMMA AddIsAdd ==
    ASSUME TableInv, TransportInv, TransportInv', mqvpn_client_add_path
    PROVE  \E h \in Handles : TC!Add(h)
  <1>0. PICK h \in Handles : h = next_path_handle
    BY HandleTypes, PathBoundsAssumption DEF mqvpn_client_add_path, Handles
  <1>1. PICK i \in Slots :
                /\ paths[i].state = "CLOSED_FREE" /\ i <= n_paths
                /\ n_paths' = (IF i = n_paths THEN n_paths + 1 ELSE n_paths)
                /\ \A j \in Slots :
                      IF j = i THEN /\ paths'[j].handle = next_path_handle
                                    /\ paths'[j].attached /\ ~paths'[j].released
                      ELSE /\ paths'[j].handle = paths[j].handle
                           /\ paths'[j].attached <=> paths[j].attached
                           /\ paths'[j].released <=> paths[j].released
    BY AddTransport
  <1>2. /\ next_path_handle' = next_path_handle + 1
        /\ UNCHANGED <<releases, destroyed>> /\ ~destroyed
    BY AddTransport
  <1>3. /\ n_paths \in Nat /\ \A j \in Used' : j \in Slots
        /\ \A j \in Slots : j \in Used' <=> j \in Used \/ j = i
    BY <1>1, ClientAssumption DEF Used, Slots, TableInv, TableTypeOK
  <1>5. phase[h] = "unborn" /\ \A g \in Handles : g < h => phase[g] # "unborn"
    BY <1>0, HandleTypes, PhaseIs
  <1>6. phase'[h] = "attached"
    <2>1. releases'[h] = 0
      BY <1>2, <1>0, HandleTypes DEF TransportInv, ReleasedExactlyOnce
    <2>2. Holds(h)'
      BY <1>1, <1>3, <1>0 DEF Holds
    <2> QED BY <1>2, <1>0, <2>1, <2>2, HandleTypes, PhaseIsNext
  <1>7. ASSUME NEW g \in Handles, g # h PROVE phase'[g] = phase[g]
    <2>1. g >= next_path_handle' <=> g >= next_path_handle
      BY <1>2, <1>0, <1>7, HandleTypes
    <2>2. Holds(g)' <=> Holds(g)
      <3>1. paths[i].attached = FALSE
        BY <1>1, Zenon DEF TableInv, GoodTable, GoodSlot, path_invariant_check, path_entry_t
      <3> QED BY <1>1, <1>3, <1>0, <1>7, <3>1, HandleTypes DEF Holds
    <2> QED BY <1>2, <2>1, <2>2, PhaseIs, PhaseIsNext
  <1>8. phase' = [phase EXCEPT ![h] = "attached"]
    BY <1>0, <1>6, <1>7, MoveOne
  <1>9. TC!Add(h)
    BY <1>2, <1>5, <1>6, <1>8 DEF TC!Add, TC!Move
  <1> QED BY <1>0, <1>9

\* Dropping or removing a path is Detach of its handle, or nothing when it was
\* detached already.
LEMMA DropIsDetach ==
    ASSUME TableInv, TransportInv, TransportInv', NEW i \in Slots, DetachesTransport(i),
           ~destroyed, UNCHANGED destroyed
    PROVE  UNCHANGED phase \/ \E h \in Handles : TC!Detach(h)
  <1>1. /\ \A j \in Slots : /\ paths'[j].handle = paths[j].handle
                            /\ paths'[j].attached <=> paths[j].attached /\ j # i
        /\ UNCHANGED <<n_paths, next_path_handle, releases>>
    BY DEF DetachesTransport, KeepsHandles
  <1>2. Used' = Used /\ Used \subseteq Slots
    BY <1>1, HandleTypes DEF Used
  <1>3. CASE i \in Used /\ paths[i].attached
    <2>1. ~paths[i].released
      BY <1>3, Zenon DEF TableInv, GoodTable, GoodSlot, path_invariant_check, path_entry_t,
                  path_lifecycle_t
    <2>2. PICK h \in Handles : h = paths[i].handle /\ h < next_path_handle
      BY <1>3, UsedHandle, Zenon
    <2>3. ~destroyed /\ releases[h] = 0
      BY <1>3, <2>1, <2>2 DEF TransportInv, ReleasedExactlyOnce
    <2>4. Holds(h) /\ ~Holds(h)'
      BY <1>1, <1>2, <1>3, <2>2 DEF Holds, TransportInv
    <2>5. phase[h] = "attached" /\ phase'[h] = "detached"
      <3>1. ~(h >= next_path_handle) /\ ~(releases[h] = 1)
        BY <2>2, <2>3, HandleTypes
      <3> QED BY <1>1, <2>4, <3>1, PhaseIs, PhaseIsNext, Zenon
    <2>6. ASSUME NEW g \in Handles, g # h PROVE phase'[g] = phase[g]
      <3>1. Holds(g)' <=> Holds(g)
        BY <1>1, <1>2, <2>2, <2>6 DEF Holds
      <3> QED BY <1>1, <3>1, PhaseIs, PhaseIsNext, Zenon
    <2>7. phase' = [phase EXCEPT ![h] = "detached"]
      BY <2>2, <2>5, <2>6, MoveOne
    <2>8. TC!Detach(h)
      BY <2>5, <2>7 DEF TC!Detach, TC!Move
    <2> QED BY <2>2, <2>8
  <1>4. CASE ~(i \in Used /\ paths[i].attached)
    <2>1. ASSUME NEW g \in Handles PROVE phase'[g] = phase[g]
      <3>1. Holds(g)' <=> Holds(g)
        BY <1>1, <1>2, <1>4 DEF Holds
      <3> QED BY <1>1, <3>1, PhaseIs, PhaseIsNext
    <2> QED BY <2>1, MoveNone
  <1> QED BY <1>3, <1>4

\* The platform's release of a dropped transport is Release of its handle.
LEMMA ReleaseIsRelease ==
    ASSUME TableInv, TransportInv, TransportInv', NEW i \in Slots,
           mqvpn_client_on_platform_path_released(i)
    PROVE  \E h \in Handles : TC!Release(h)
  <1>1. /\ i \in Used /\ paths[i].state = "CLOSED_DROPPED"
        /\ ~paths[i].released /\ ~destroyed
        /\ releases' = [releases EXCEPT ![paths[i].handle] = @ + 1]
        /\ UNCHANGED <<n_paths, next_path_handle, destroyed>>
    BY DEF mqvpn_client_on_platform_path_released
  <1>2. \A j \in Slots : /\ paths'[j].handle = paths[j].handle
                         /\ j # i => paths'[j] = paths[j]
    BY ReleaseStep
  <1>3. Used' = Used /\ Used \subseteq Slots /\ releases \in [Handles -> Nat]
    BY <1>1, HandleTypes DEF TableInv, TableTypeOK, Used
  <1>4. PICK h \in Handles : h = paths[i].handle /\ h < next_path_handle
    BY <1>1, UsedHandle, Zenon
  <1>5. releases[h] = 0 /\ releases'[h] = 1
    <2>1. releases[h] = 0
      BY <1>1, <1>4, Zenon DEF TransportInv, ReleasedExactlyOnce
    <2>2. releases'[h] = releases[h] + 1
      BY <1>1, <1>3, <1>4, Zenon
    <2> QED BY <2>1, <2>2
  <1>6. ~Holds(h)
    <2>1. ~paths[i].attached
      BY <1>1 DEF TableInv, GoodTable, GoodSlot, path_invariant_check
    <2> QED BY <1>1, <1>3, <1>4, <2>1 DEF Holds, TransportInv
  <1>7. phase[h] = "detached" /\ phase'[h] = "released"
    BY <1>1, <1>4, <1>5, <1>6, HandleTypes, PhaseIs, PhaseIsNext
  <1>8. ASSUME NEW g \in Handles, g # h PROVE phase'[g] = phase[g]
    <2>1. Holds(g)' <=> Holds(g)
      BY <1>2, <1>3, <1>4, <1>8 DEF Holds
    <2>2. releases'[g] = releases[g]
      BY <1>1, <1>3, <1>4, <1>8
    <2> QED BY <1>1, <2>1, <2>2, PhaseIs, PhaseIsNext
  <1>9. phase' = [phase EXCEPT ![h] = "released"]
    BY <1>4, <1>7, <1>8, MoveOne
  <1>10. TC!Release(h)
    BY <1>1, <1>7, <1>9 DEF TC!Release, TC!Move
  <1> QED BY <1>4, <1>10

\* mqvpn_client_destroy is Destroy.
LEMMA DestroyIsDestroy ==
    ASSUME TableInv, TransportInv, TransportInv', mqvpn_client_destroy
    PROVE  TC!Destroy
  <1>1. ~destroyed /\ destroyed' = TRUE /\ UNCHANGED next_path_handle
    BY DEF mqvpn_client_destroy, Idle, tableVars
  <1>2. ASSUME NEW h \in Handles
        PROVE  phase'[h] = IF phase[h] = "unborn" THEN "unborn" ELSE "released"
    <2>1. releases'[h] = IF h < next_path_handle THEN 1 ELSE 0
      BY <1>1, Zenon DEF TransportInv, ReleasedExactlyOnce
    <2>2. CASE h >= next_path_handle
      BY <1>1, <2>2, PhaseIs, PhaseIsNext, Zenon
    <2>3. CASE ~(h >= next_path_handle)
      <3>1. h < next_path_handle
        BY <2>3, HandleTypes
      <3>2. phase[h] # "unborn"
        BY <2>3, PhaseIs
      <3> QED BY <1>1, <2>1, <2>3, <3>1, <3>2, PhaseIsNext, Zenon
    <2> QED BY <2>2, <2>3, Zenon
  <1>3. phase' = [h \in Handles |-> IF phase[h] = "unborn" THEN "unborn" ELSE "released"]
    BY <1>2, Zenon DEF phase
  <1> QED BY <1>1, <1>3 DEF TC!Destroy

\* Nothing happens to the transports of a client that is destroyed.
LEMMA DetachBeforeDestroy ==
    ASSUME ConnInv, [Next]_vars, destroyed
    PROVE  UNCHANGED <<tableVars, releases, destroyed>>
  <1>1. ~in_connect
    BY DEF ConnInv
  <1> QED
    BY <1>1, Zenon DEF Next, vars, mqvpn_client_add_path, mqvpn_client_remove_path,
         mqvpn_client_on_platform_path_dropped, mqvpn_client_on_platform_path_released,
         mqvpn_client_reactivate_path, cb_ready_to_create_path, xqc_path_validated,
         cb_path_removed, tick_path_recovery, Gone, mqvpn_client_connect, restart_ok,
         mqvpn_client_connect_again, tick_reconnect, client_reset_paths_for_reconnect,
         restart_failed, cli_report_cert_rejected, cb_h3_conn_handshake_finished,
         cli_connect_ip_scan_headers, cli_connect_ip_on_body, cli_check_ipv6_mtu,
         cli_connect_ip_on_request_close, mqvpn_client_set_tun_active, cb_h3_conn_close,
         mqvpn_client_disconnect, mqvpn_client_destroy, tick_handshake_watchdog, Elapse, Idle, connVars

\* Every step of the client is a step of the contract, or leaves its state alone.
LEMMA ContractStep ==
    ASSUME TableInv, ConnInv, TransportInv, TransportInv', [Next]_vars
    PROVE  TC!TNext \/ UNCHANGED <<phase, destroyed>>
  <1>1. CASE mqvpn_client_add_path
    BY <1>1, AddIsAdd DEF TC!TNext
  <1>2. CASE \E i \in Slots : mqvpn_client_on_platform_path_released(i)
    BY <1>2, ReleaseIsRelease DEF TC!TNext
  <1>3. CASE mqvpn_client_destroy
    BY <1>3, DestroyIsDestroy DEF TC!TNext
  <1>4. CASE destroyed
    <2>1. UNCHANGED <<paths, n_paths, next_path_handle, releases, destroyed>>
      BY <1>4, DetachBeforeDestroy, Zenon DEF tableVars
    <2> QED BY <2>1 DEF phase, Holds, Used
  <1>5. CASE (\E i \in Slots : DetachesTransport(i)) /\ ~destroyed /\ ~mqvpn_client_destroy
    <2>1. UNCHANGED destroyed
      BY <1>5, DestroyedStep
    <2> QED BY <1>5, <2>1, DropIsDetach DEF TC!TNext
  <1>6. CASE KeepsTransports /\ ~mqvpn_client_destroy
    <2>1. UNCHANGED destroyed
      BY <1>6, DestroyedStep
    <2>2. /\ \A j \in Slots : /\ paths'[j].handle = paths[j].handle
                              /\ paths'[j].attached <=> paths[j].attached
          /\ UNCHANGED <<n_paths, next_path_handle, releases>>
      BY <1>6 DEF KeepsTransports, KeepsHandles
    <2>3. Used' = Used /\ Used \subseteq Slots
      BY <2>2, HandleTypes DEF Used
    <2>4. ASSUME NEW g \in Handles PROVE phase'[g] = phase[g]
      <3>1. Holds(g)' <=> Holds(g)
        BY <2>2, <2>3 DEF Holds
      <3> QED BY <2>2, <3>1, PhaseIs, PhaseIsNext
    <2> QED BY <2>1, <2>4, MoveNone
  <1> QED BY <1>1, <1>2, <1>3, <1>4, <1>5, <1>6, TableStep

-----------------------------------------------------------------------------
(* The theorems. *)

\* The inductive invariant of the client.
ClientInv == FlagsTypeOK /\ ConnTypeOK /\ ConnInv /\ SignalInv /\ TableInv /\ TransportInv

\* ClientInv holds initially and every step of the client preserves it.
THEOREM ClientInvariant == Spec => []ClientInv
  <1>1. Init => ClientInv
    <2>1. Init => FlagsTypeOK
      BY Zenon DEF Init, FlagsTypeOK
    <2> QED BY <2>1, ConnInit, SignalInit, TableInit, TransportInit DEF ClientInv
  <1>2. ClientInv /\ [Next]_vars => ClientInv'
    BY FlagsStep, ConnStep, SignalStep, TableStep, TransportStep DEF ClientInv
  <1> QED BY <1>1, <1>2, PTL DEF Spec

\* Every variable of the client keeps its type.
THEOREM TypeCorrect == Spec => []TypeOK
  <1>1. ClientInv => TypeOK
    BY DEF ClientInv, TypeOK, TableInv
  <1> QED BY <1>1, ClientInvariant, PTL

\* path_invariant_check never fails on a slot in use, whatever the order of events.
THEOREM SlotsAlwaysGood == Spec => []SlotInvariant
  <1>1. ClientInv => SlotInvariant
    <2>1. ClientInv => Used \subseteq Slots
      BY HandleTypes, Zenon DEF ClientInv
    <2> QED BY <2>1, Zenon DEF ClientInv, TableInv, GoodTable, GoodSlot, SlotInvariant
  <1> QED BY <1>1, ClientInvariant, PTL

\* A slot of the table that is bound is in use.
LEMMA BoundIsUsed ==
    ASSUME TableInv, NEW i \in Slots
    PROVE  /\ paths[i].live => i \in Used
           /\ Used \subseteq Slots
  <1>1. ASSUME i >= n_paths PROVE ~paths[i].live
    <2>1. paths[i] = path_entry_init
      BY <1>1 DEF TableInv, Unused
    <2> QED BY <2>1, UnusedSlot, Zenon
  <1>2. n_paths \in Nat /\ i \in Nat
    BY ClientAssumption DEF Slots, TableInv, TableTypeOK
  <1> QED BY <1>1, <1>2, HandleTypes DEF Used

\* The bindings of a connection are a matching with xquic's paths: no stale, shared
\* or orphaned path.
THEOREM BindingsMatch == Spec => []BindingMatchesXquic
  <1>1. TableInv => BindingMatchesXquic
    <2> SUFFICES ASSUME TableInv, conn # "null"
                 PROVE  /\ \A i \in Used : paths[i].live => xqc[paths[i].id] # "none"
                        /\ \A i, j \in Used :
                               paths[i].live /\ paths[j].live /\ paths[i].id = paths[j].id
                                   => i = j
                        /\ \A k \in PathIds \ {0} :
                               xqc[k] # "none" => \E i \in Used : bound(i, k)
      BY DEF BindingMatchesXquic
    <2>1. Matching(paths, xqc)
      BY DEF TableInv
    <2>2. Used \subseteq Slots /\ \A i \in Slots : paths[i].live => i \in Used
      BY BoundIsUsed, ClientAssumption, Zenon DEF Used, Slots, TableInv, TableTypeOK
    <2> QED BY <2>1, <2>2 DEF Matching, bound
  <1>2. ClientInv => BindingMatchesXquic
    BY <1>1 DEF ClientInv
  <1> QED BY <1>2, ClientInvariant, PTL

\* A datagram of an xquic path leaves through the transport of the slot bound to it;
\* only the bootstrap path, when no slot is bound to it, falls back to another.
THEOREM NeverASibling == Spec => []NoSiblingSend
  <1>1. TableInv /\ BindingMatchesXquic => NoSiblingSend
    <2> SUFFICES ASSUME TableInv, BindingMatchesXquic, conn # "null",
                        NEW k \in PathIds, xqc[k] # "none", k # 0 \/ \E j \in Used : bound(j, 0)
                 PROVE  bound(get_path_entry_for_send(k), k)
      BY DEF NoSiblingSend
    <2> DEFINE owners == {i \in Used : bound(i, k)}
    <2>1. owners # {} /\ owners \in SUBSET Nat
      <3>1. owners # {}
        BY Zenon DEF BindingMatchesXquic
      <3>2. n_paths \in Nat
        BY ClientAssumption DEF TableInv, TableTypeOK
      <3> QED BY <3>1, <3>2 DEF Used
    <2>2. \E i \in owners : \A j \in owners : i <= j
      <3> HIDE DEF owners
      <3> QED BY <2>1, SmallestOf
    <2>3. get_path_entry_for_send(k) = CHOOSE i \in owners : \A j \in owners : i <= j
      BY <2>1 DEF get_path_entry_for_send
    <2>4. (CHOOSE i \in owners : \A j \in owners : i <= j) \in owners
      <3> HIDE DEF owners
      <3> QED BY <2>2
    <2>5. get_path_entry_for_send(k) \in owners
      BY <2>3, <2>4
    <2> QED BY <2>5
  <1>2. ClientInv => TableInv
    BY DEF ClientInv
  <1> QED BY <1>1, <1>2, ClientInvariant, BindingsMatch, PTL

\* The states that use c->conn have a connection, those that start one have none.
THEOREM ConnAlwaysMatches == Spec => []ConnMatchesState
  <1>1. ClientInv => ConnMatchesState
    BY DEF ClientInv, ConnInv
  <1> QED BY <1>1, ClientInvariant, PTL

\* A client that lost its connection always has the next attempt scheduled.
THEOREM NeverStranded == Spec => []ReconnectNeverStranded
  <1>1. ClientInv => ReconnectNeverStranded
    BY DEF ClientInv, ConnInv
  <1> QED BY <1>1, ClientInvariant, PTL

\* No attached path waits for an activation that nobody will request.
THEOREM NoneForgotten == Spec => []NoForgottenPath
  <1>1. ClientInv => NoForgottenPath
    BY ClientAssumption DEF ClientInv, TableInv, TableTypeOK, NoForgottenPath, Used, Slots
  <1> QED BY <1>1, ClientInvariant, PTL

\* tunnel_closed is called exactly once per connection.
THEOREM ClosedOnce == Spec => []TunnelClosedOnce
  <1>1. ClientInv => TunnelClosedOnce
    BY DEF ClientInv, SignalInv
  <1> QED BY <1>1, ClientInvariant, PTL

\* The assertion of cli_signal_connect_fail never fails.
THEOREM FailureMeansDown == Spec => []NoFailureOnLiveTunnel
  <1>1. ClientInv => NoFailureOnLiveTunnel
    BY DEF ClientInv, SignalInv
  <1> QED BY <1>1, ClientInvariant, PTL

\* Every transport handed to the client is released exactly once.
THEOREM EveryTransportReleasedOnce == Spec => []ReleasedExactlyOnce
  <1>1. ClientInv => ReleasedExactlyOnce
    BY DEF ClientInv, TransportInv
  <1> QED BY <1>1, ClientInvariant, PTL

\* What every call into the client relies on holds for any table size, retry budget
\* and timer setting.
THEOREM ClientAlwaysSafe == Spec => []ClientSafe
  <1>1. (/\ TypeOK /\ SlotInvariant /\ NoForgottenPath
         /\ NoSiblingSend /\ ConnMatchesState /\ ReconnectNeverStranded
         /\ TunnelClosedOnce /\ NoFailureOnLiveTunnel /\ ReleasedExactlyOnce)
        => ClientSafe
    BY DEF ClientSafe
  <1> QED BY <1>1, TypeCorrect, SlotsAlwaysGood, NoneForgotten, NeverASibling,
             ConnAlwaysMatches, NeverStranded, ClosedOnce, FailureMeansDown,
             EveryTransportReleasedOnce, PTL

\* The assertion of client_set_state never fails.
THEOREM OnlyLegalTransitions == Spec => LegalTransitions
  <1>1. ClientInv /\ [Next]_vars => [state' # state => <<state, state'>> \in state_transitions]_state
    BY TransitionStep DEF ClientInv
  <1> QED BY <1>1, ClientInvariant, PTL DEF Spec, LegalTransitions

\* A handle names one transport for ever.
THEOREM HandlesAreUnique == Spec => HandleNeverReused
  <1>1. ClientInv /\ [Next]_vars =>
            [\A i \in Slots :
                paths'[i].handle # paths[i].handle =>
                    /\ paths[i].state = "CLOSED_FREE"
                    /\ paths[i].handle # 0 => releases[paths[i].handle] = 1
                    /\ \A j \in Slots : paths[j].handle < paths'[i].handle]_paths
    BY HandleStep DEF ClientInv
  <1> QED BY <1>1, ClientInvariant, PTL DEF Spec, HandleNeverReused

\* The client implements the contract of libmqvpn.h with the owner of a transport: it
\* is attached, detached and released, each once and in this order, whatever drops,
\* reconnects, recycled slots and the destruction of the client do in between.
THEOREM ImplementsTransportContract == Spec => KeepsTransportContract
  <1>1. Init => TC!TInit
    <2> SUFFICES ASSUME Init PROVE TC!TInit
      OBVIOUS
    <2>1. next_path_handle = 1 /\ destroyed = FALSE
      BY DEF Init
    <2>2. \A h \in Handles : h >= 1
      BY DEF Handles
    <2>3. phase = [h \in Handles |-> "unborn"]
      BY <2>1, <2>2 DEF phase
    <2> QED BY <2>1, <2>3 DEF TC!TInit
  <1>2. ClientInv /\ ClientInv' /\ [Next]_vars => [TC!TNext]_(TC!tvars)
    BY ContractStep DEF ClientInv, TC!tvars
  <1> QED BY <1>1, <1>2, ClientInvariant, PTL DEF Spec, KeepsTransportContract, TC!TSpec
==============================================================================
